---- MODULE Spec2Model ----
(***************************************************************************)
(* Nova voice assistant (Hackathon_242VMTR01589): the listening loop of    *)
(* NovaAssistant, its speak threads, the wake detection of VoiceRecognizer *)
(* and the command routing of CommandProcessor, with the NovaUI entry      *)
(* points that call into them.                                             *)
(*                                                                         *)
(* Texts are TLA+ strings; Len, SubSeq and \o act on them character by     *)
(* character.  The characters of a text are those a TLA+ string can hold   *)
(* (ASCII, Latin-1 and part of the rest of the Basic Multilingual Plane)   *)
(* whose lower case is such a character too.                               *)
(***************************************************************************)
EXTENDS Naturals, Sequences, FiniteSets, TLC

(***************************************************************************)
(* Bounds of the model.                                                    *)
(***************************************************************************)
\* Audio the environment supplies in one behaviour: utterances that reach a
\* capture, and audio that is not recognised.
MaxInputs == 3
\* What the user does in the UI in one behaviour: text commands sent and
\* clicks of the voice button that start a direct capture.
MaxUserActions == 1
\* The user speaks or types only while at most this many spoken responses
\* are still pending (waiting to be played, or playing).
MaxBacklog == 0

(***************************************************************************)
(* Python str helpers.                                                     *)
(***************************************************************************)
\* The characters str.lower() changes, and at the same position what it
\* changes each to: A-Z, then the other letters with a one-character lower
\* case.  The last 93 characters of UpperChars (from U+0181 on) have no
\* partner in LowerChars: their lower case is a character no TLA+ string can
\* hold.
UpperChars == "ABCDEFGHIJKLMNOPQRSTUVWXYZÀÁÂÃÄÅÆÇÈÉÊËÌÍÎÏÐÑÒÓÔÕÖØÙÚÛÜÝÞƂƄƇƋƎƑƘƠƢƤƦƧƩƬƮƯƱƲƳƵƷƸƼǄǅǇǈǊǋǍǏǑǓǕǗǙǛǞǠǢǤǦǨǪǬǮǱǲǴǶǷǸǺǼǾΆΈΉΊΌΎΏΑΒΓΔΕΖΗΘΙΚΛΜΝΞΟΠΡΣΤΥΦΧΨΩΪΫϏϘϚϜϞϠϢϤϦϨϪϬϮϴϷϹϺҀҊҌҎҐҒҔҖҘҚҜҞҠҢҤҦҨҪҬҮҰҲҴҶҸҺҼҾӀӁӃӅӇӉӋӍӐӒӔӖӘӚӜӞӠӢӤӦӨӪӬӮӰӲӴӶӸӺӼӾᎰᎱᎲᎳᎴᎵᎶᎷᎸᎹᎺᎻᎼᎽᎾᎿᏀᏁᏂᏃᏄᏅᏆᏇᏈᏉᏊᏋᏌᏍᏎᏏᏐᏑᏒᏓᏔᏕᏖᏗᏘᏙᏚᏛᏜᏝᏞᏟᏠᏡᏢᏣᏤᏥᏦᏧᏨᏩᏪᏫᏬᏭᏮᏯᏰᏱᏲᏳᏴᏵᲐᲑᲒᲓᲔᲕᲖᲗᲘᲙᲚᲛᲜᲝᲞᲟᲠᲡᲢᲣᲤᲥᲦᲧᲨᲩᲪᲫᲬᲭᲮᲯᲰᲱᲲᲳᲴᲵᲶᲷᲸᲹᲺᲽᲾᲿẀẂẄẆẈẊẌẎẐẒẔẞẠẢẤẦẨẪẬẮẰẲẴẶẸẺẼẾỀỂỄỆỈỊỌỎỐỒỔỖỘỚỜỞỠỢỤỦỨỪỬỮỰỲỴỶỸỺỼỾᾈᾉᾊᾋᾌᾍᾎᾏᾘᾙᾚᾛᾜᾝᾞᾟᾨᾩᾪᾫᾬᾭᾮᾯᾸᾹᾼῌῘῙῨῩῬῼↃⒶⒷⒸⒹⒺⒻⒼⒽⒾⒿⓀⓁⓂⓃⓄⓅⓆⓇⓈⓉⓊⓋⓌⓍⓎⓏⲀⲂⲄⲆⲈⲊⲌⲎⲐⲒⲔⲖⲘⲚⲜⲞⲠⲢⲤⲦⲨⲪⲬⲮⲰⲲⲴⲶⲸⲺⲼⲾⳀⳂⳄⳆⳈⳊⳌⳎⳐⳒⳔⳖⳘⳚⳜⳞⳠⳢⳫⳭⳲꚀꚂꚄꚆꚈꚊꚌꚎꚐꚒꚔꚖꚘꚚꞀꞂꞄꞆꞋꞐꞒꞖꞘꞚꞜꞞꞠꞢꞤꞦꞨꞰꞱꞲꞴꞶꞸꞺꞼꞾꟀꟂꟄꟅꟆꟇꟉꟐꟖꟘꟵƁƆƉƊƏƐƓƔƖƗƜƝƟϽϾϿႠႡႢႣႤႥႦႧႨႩႪႫႬႭႮႯႰႱႲႳႴႵႶႷႸႹႺႻႼႽႾႿჀჁჂჃჄჅჇჍᎠᎡᎢᎣᎤᎥᎦᎧᎨᎩᎪᎫᎬᎭᎮᎯᾺΆῈΈῊΉῚΊῪΎῸΌῺΏꞍꞪꞫꞬꞭꞮꞳ"
LowerChars == "abcdefghijklmnopqrstuvwxyzàáâãäåæçèéêëìíîïðñòóôõöøùúûüýþƃƅƈƌǝƒƙơƣƥʀƨʃƭʈưʊʋƴƶʒƹƽǆǆǉǉǌǌǎǐǒǔǖǘǚǜǟǡǣǥǧǩǫǭǯǳǳǵƕƿǹǻǽǿάέήίόύώαβγδεζηθικλμνξοπρστυφχψωϊϋϗϙϛϝϟϡϣϥϧϩϫϭϯθϸϲϻҁҋҍҏґғҕҗҙқҝҟҡңҥҧҩҫҭүұҳҵҷҹһҽҿӏӂӄӆӈӊӌӎӑӓӕӗәӛӝӟӡӣӥӧөӫӭӯӱӳӵӷӹӻӽӿꮀꮁꮂꮃꮄꮅꮆꮇꮈꮉꮊꮋꮌꮍꮎꮏꮐꮑꮒꮓꮔꮕꮖꮗꮘꮙꮚꮛꮜꮝꮞꮟꮠꮡꮢꮣꮤꮥꮦꮧꮨꮩꮪꮫꮬꮭꮮꮯꮰꮱꮲꮳꮴꮵꮶꮷꮸꮹꮺꮻꮼꮽꮾꮿᏸᏹᏺᏻᏼᏽაბგდევზთიკლმნოპჟრსტუფქღყშჩცძწჭხჯჰჱჲჳჴჵჶჷჸჹჺჽჾჿẁẃẅẇẉẋẍẏẑẓẕßạảấầẩẫậắằẳẵặẹẻẽếềểễệỉịọỏốồổỗộớờởỡợụủứừửữựỳỵỷỹỻỽỿᾀᾁᾂᾃᾄᾅᾆᾇᾐᾑᾒᾓᾔᾕᾖᾗᾠᾡᾢᾣᾤᾥᾦᾧᾰᾱᾳῃῐῑῠῡῥῳↄⓐⓑⓒⓓⓔⓕⓖⓗⓘⓙⓚⓛⓜⓝⓞⓟⓠⓡⓢⓣⓤⓥⓦⓧⓨⓩⲁⲃⲅⲇⲉⲋⲍⲏⲑⲓⲕⲗⲙⲛⲝⲟⲡⲣⲥⲧⲩⲫⲭⲯⲱⲳⲵⲷⲹⲻⲽⲿⳁⳃⳅⳇⳉⳋⳍⳏⳑⳓⳕⳗⳙⳛⳝⳟⳡⳣⳬⳮⳳꚁꚃꚅꚇꚉꚋꚍꚏꚑꚓꚕꚗꚙꚛꞁꞃꞅꞇꞌꞑꞓꞗꞙꞛꞝꞟꞡꞣꞥꞧꞩʞʇʝꞵꞷꞹꞻꞽꞿꟁꟃꞔʂᶎꟈꟊꟑꟗꟙꟶ"
UpperSet == {SubSeq(UpperChars, i, i) : i \in 1..Len(UpperChars)}

\* str.lower() of one character.  It has no value for a character of
\* UpperChars without a partner in LowerChars (the CASE has no arm for it):
\* no text of the model contains one.
LowerChar(c) ==
    IF c \in UpperSet
    THEN LET i == CHOOSE k \in 1..Len(UpperChars) : SubSeq(UpperChars, k, k) = c
         IN  CASE i <= Len(LowerChars) -> SubSeq(LowerChars, i, i)
    ELSE c

\* The cased characters that are not case-ignorable, and the case-ignorable
\* characters: what decides whether a capital sigma ends a word.
CasedChars == "ABCDEFGHIJKLMNOPQRSTUVWXYZabcdefghijklmnopqrstuvwxyzªµºÀÁÂÃÄÅÆÇÈÉÊËÌÍÎÏÐÑÒÓÔÕÖØÙÚÛÜÝÞßàáâãäåæçèéêëìíîïðñòóôõöøùúûüýþÿƀƁƂƃƄƅƆƇƈƉƊƋƌƍƎƏƐƑƒƓƔƕƖƗƘƙƚƛƜƝƞƟƠơƢƣƤƥƦƧƨƩƪƫƬƭƮƯưƱƲƳƴƵƶƷƸƹƺƼƽƾƿǄǅǆǇǈǉǊǋǌǍǎǏǐǑǒǓǔǕǖǗǘǙǚǛǜǝǞǟǠǡǢǣǤǥǦǧǨǩǪǫǬǭǮǯǰǱǲǳǴǵǶǷǸǹǺǻǼǽǾǿʀʁʂʃʄʅʆʇʈʉʊʋʌʍʎʏʐʑʒʓʕʖʗʘʙʚʛʜʝʞʟʠʡʢʣʤʥʦʧʨʩʪʫʬʭʮʯΆΈΉΊΌΎΏΐΑΒΓΔΕΖΗΘΙΚΛΜΝΞΟΠΡΣΤΥΦΧΨΩΪΫάέήίΰαβγδεζηθικλμνξοπρςστυφχψωϊϋόύώϏϐϑϒϓϔϕϖϗϘϙϚϛϜϝϞϟϠϡϢϣϤϥϦϧϨϩϪϫϬϭϮϯϰϱϲϳϴϵϷϸϹϺϻϼϽϾϿҀҁҊҋҌҍҎҏҐґҒғҔҕҖҗҘҙҚқҜҝҞҟҠҡҢңҤҥҦҧҨҩҪҫҬҭҮүҰұҲҳҴҵҶҷҸҹҺһҼҽҾҿӀӁӂӃӄӅӆӇӈӉӊӋӌӍӎӏӐӑӒӓӔӕӖӗӘәӚӛӜӝӞӟӠӡӢӣӤӥӦӧӨөӪӫӬӭӮӯӰӱӲӳӴӵӶӷӸӹӺӻӼӽӾӿրցւփքօֆևֈႠႡႢႣႤႥႦႧႨႩႪႫႬႭႮႯႰႱႲႳႴႵႶႷႸႹႺႻႼႽႾႿჀჁჂჃჄჅჇჍაბგდევზთიკლმნოპჟრსტუფქღყშჩცძწჭხჯჰჱჲჳჴჵჶჷჸჹჺჽჾჿᎠᎡᎢᎣᎤᎥᎦᎧᎨᎩᎪᎫᎬᎭᎮᎯᎰᎱᎲᎳᎴᎵᎶᎷᎸᎹᎺᎻᎼᎽᎾᎿᏀᏁᏂᏃᏄᏅᏆᏇᏈᏉᏊᏋᏌᏍᏎᏏᏐᏑᏒᏓᏔᏕᏖᏗᏘᏙᏚᏛᏜᏝᏞᏟᏠᏡᏢᏣᏤᏥᏦᏧᏨᏩᏪᏫᏬᏭᏮᏯᏰᏱᏲᏳᏴᏵᏸᏹᏺᏻᏼᏽᲀᲁᲂᲃᲄᲅᲆᲇᲈᲐᲑᲒᲓᲔᲕᲖᲗᲘᲙᲚᲛᲜᲝᲞᲟᲠᲡᲢᲣᲤᲥᲦᲧᲨᲩᲪᲫᲬᲭᲮᲯᲰᲱᲲᲳᲴᲵᲶᲷᲸᲹᲺᲽᲾᲿᶀᶁᶂᶃᶄᶅᶆᶇᶈᶉᶊᶋᶌᶍᶎᶏᶐᶑᶒᶓᶔᶕᶖᶗᶘᶙᶚẀẁẂẃẄẅẆẇẈẉẊẋẌẍẎẏẐẑẒẓẔẕẖẗẘẙẚẛẜẝẞẟẠạẢảẤấẦầẨẩẪẫẬậẮắẰằẲẳẴẵẶặẸẹẺẻẼẽẾếỀềỂểỄễỆệỈỉỊịỌọỎỏỐốỒồỔổỖỗỘộỚớỜờỞởỠỡỢợỤụỦủỨứỪừỬửỮữỰựỲỳỴỵỶỷỸỹỺỻỼỽỾỿᾀᾁᾂᾃᾄᾅᾆᾇᾈᾉᾊᾋᾌᾍᾎᾏᾐᾑᾒᾓᾔᾕᾖᾗᾘᾙᾚᾛᾜᾝᾞᾟᾠᾡᾢᾣᾤᾥᾦᾧᾨᾩᾪᾫᾬᾭᾮᾯᾰᾱᾲᾳᾴᾶᾷᾸᾹᾺΆᾼιῂῃῄῆῇῈΈῊΉῌῐῑῒΐῖῗῘῙῚΊῠῡῢΰῤῥῦῧῨῩῪΎῬῲῳῴῶῷῸΌῺΏῼↃↄⒶⒷⒸⒹⒺⒻⒼⒽⒾⒿⓀⓁⓂⓃⓄⓅⓆⓇⓈⓉⓊⓋⓌⓍⓎⓏⓐⓑⓒⓓⓔⓕⓖⓗⓘⓙⓚⓛⓜⓝⓞⓟⓠⓡⓢⓣⓤⓥⓦⓧⓨⓩⲀⲁⲂⲃⲄⲅⲆⲇⲈⲉⲊⲋⲌⲍⲎⲏⲐⲑⲒⲓⲔⲕⲖⲗⲘⲙⲚⲛⲜⲝⲞⲟⲠⲡⲢⲣⲤⲥⲦⲧⲨⲩⲪⲫⲬⲭⲮⲯⲰⲱⲲⲳⲴⲵⲶⲷⲸⲹⲺⲻⲼⲽⲾⲿⳀⳁⳂⳃⳄⳅⳆⳇⳈⳉⳊⳋⳌⳍⳎⳏⳐⳑⳒⳓⳔⳕⳖⳗⳘⳙⳚⳛⳜⳝⳞⳟⳠⳡⳢⳣⳤⳫⳬⳭⳮⳲⳳꚀꚁꚂꚃꚄꚅꚆꚇꚈꚉꚊꚋꚌꚍꚎꚏꚐꚑꚒꚓꚔꚕꚖꚗꚘꚙꚚꚛꞀꞁꞂꞃꞄꞅꞆꞇꞋꞌꞍꞎꞐꞑꞒꞓꞔꞕꞖꞗꞘꞙꞚꞛꞜꞝꞞꞟꞠꞡꞢꞣꞤꞥꞦꞧꞨꞩꞪꞫꞬꞭꞮꞯꞰꞱꞲꞳꞴꞵꞶꞷꞸꞹꞺꞻꞼꞽꞾꞿꟀꟁꟂꟃꟄꟅꟆꟇꟈꟉꟊꟐꟑꟓꟕꟖꟗꟘꟙꟵꟶꟺꮀꮁꮂꮃꮄꮅꮆꮇꮈꮉꮊꮋꮌꮍꮎꮏꮐꮑꮒꮓꮔꮕꮖꮗꮘꮙꮚꮛꮜꮝꮞꮟꮠꮡꮢꮣꮤꮥꮦꮧꮨꮩꮪꮫꮬꮭꮮꮯꮰꮱꮲꮳꮴꮵꮶꮷꮸꮹꮺꮻꮼꮽꮾꮿ"
CaseIgnorableChars == "'.:^¨­¯´·¸ʰʱʲʳʴʵʶʷʸʹʺʻʼʽʾʿˀˁ˂˃˄˅ˆˇˈˉˊˋˌˍˎˏːˑ˒˓˔˕˖˗˘˙˚˛˜˝˞˟ˠˡˢˣˤ˥˦˧˨˩˪˫ˬ˭ˮ˯˰˱˲˳˴˵˶˷˸˹˺˻˼˽˾˿΄΅·҃҄҅҆҇҈҉ְֱֲֳִֵֶַָׇֹֺֻּֽֿׁׂ֑֖֛֢֣֤֥֦֧֪ׅ֚֭֮֒֓֔֕֗֘֙֜֝֞֟֠֡֨֩֫֬֯ׄ״ۖۗۘۙۚۛۜ۝ۣ۟۠ۡۢۤۥۦ۪ۭۧۨ۫۬ަާިީުޫެޭޮޯް߲߫߬߭߮߯߰߱߳ߴߵߺ߽࢈࢐࢑࢙࢚࢛࢘࢜࢝࢞࢟ࣉ࣏࣐࣑࣒࣓࣊࣋࣌࣍࣎ࣔࣕࣖࣗࣘࣙࣚࣛࣜࣝࣞࣟ࣠࣡࣢ࣰࣱࣲࣣࣦࣩ࣭࣮࣯ࣶࣹࣺࣤࣥࣧࣨ࣪࣫࣬ࣳࣴࣵࣷࣸࣻࣼࣽࣾࣿঁ়ুূৃৄ্ৢৣ৾ઁં઼ુૂૃૄૅેૈ્ૢૣૺૻૼ૽૾૿ஂீ்ಁ಼ಿೆೌ್ೢೣඁ්ිීුූັິີຶື຺ຸູົຼໆ່້໊໋໌ໍ྄ཱྀྀྂྃ྆྇ྍྎྏྐྑྒྒྷྔྕྖྗྙྚྛྜྜྷྞྟྠྡྡྷྣྤྥྦྦྷྨྩྪྫྫྷྭྮྯྰྱྲླྴྵྶྷྸྐྵྺྻྼ࿆ႂႅႆႍႝჼ឴឵ិីឹឺុូួំ៉៊់៌៍៎៏័៑្៓ៗ៝ᢅᢆᢩᪧ᪵᪶᪷᪸᪹᪺᪽᪰᪱᪲᪳᪴᪻᪼᪾ᪿᫀ᫃᫄᫊᫁᫂᫅᫆᫇᫈᫉᫋ᫌᫍᫎᮀᮁᮢᮣᮤᮥᮨᮩ᮫ᮬᮭ᯦ᯨᯩᯭᯯᯰᯱ᳔᳢᳣᳤᳥᳦᳧᳨᳕᳖᳗᳘᳙᳜᳝᳞᳟᳭᳐᳑᳒᳚᳛᳠᳴᳸᳹ᶛᶜᶝᶞᶟᶠᶡᶢᶣᶤᶥᶦᶧᶨᶩᶪᶫᶬᶭᶮᶯᶰᶱᶲᶳᶴᶵᶶᶷᶸᶹᶺᶻᶼᶽᶾᶿ᷐᷎᷺᷂᷊᷏᷹᷽᷿᷷᷸᷀᷁᷃᷄᷅᷆᷇᷈᷉᷋᷌᷑᷒ᷓᷔᷕᷖᷗᷘᷙᷚᷛᷜᷝᷞᷟᷠᷡᷢᷣᷤᷥᷦᷧᷨᷩᷪᷫᷬᷭᷮᷯᷰᷱᷲᷳᷴ᷵᷻᷾᷶᷼᷍᾽᾿῀῁῍῎῏῝῞῟῭΅`´῾ₐₑₒₓₔₕₖₗₘₙₚₛₜ⃒⃓⃘⃙⃚⃐⃑⃔⃕⃖⃗⃛⃜⃝⃞⃟⃠⃡⃢⃣⃤⃥⃦⃪⃫゙゚⃨⃬⃭⃮⃯⃧⃩⃰⳯⳰⳱ⷠⷡⷢⷣⷤⷥⷦⷧⷨⷩⷪⷫⷬⷭⷮⷯⷰⷱⷲⷳⷴⷵⷶⷷⷸⷹⷺⷻⷼⷽⷾⷿ゛゜ゝゞーヽヾꓸꓹꓺꓻꓼꓽꚜꚝꚞꚟ꛰꛱ꞈ꞉꞊ꟲꟳꟴꟸꟹ꣄ꣅ꣠꣡꣢꣣꣤꣥꣦꣧꣨꣩꣪꣫꣬꣭꣮꣯꣰꣱ꣿꦀꦁꦂ꦳ꦶꦷꦸꦹꦼꦽꧏꧥꧦꪴꪰꪲꪳꪷꪸꪾ꪿꫁ꫝꫬꫭꫳꫴ꫶ꯥꯨ꯭﮲﮳﮴﮵﮶﮷﮸﮹﮺﮻﮼﮽﮾﮿﯀﯁﯂﻿ﾞﾟ￣￹￺￻"
CasedSet == {SubSeq(CasedChars, i, i) : i \in 1..Len(CasedChars)}
CaseIgnorableSet == {SubSeq(CaseIgnorableChars, i, i) : i \in 1..Len(CaseIgnorableChars)}

RECURSIVE CasedBefore(_, _)
\* Going back from position j over case-ignorable characters, a cased
\* character is found.
CasedBefore(s, j) ==
    IF j < 1 THEN FALSE
    ELSE IF SubSeq(s, j, j) \in CaseIgnorableSet THEN CasedBefore(s, j - 1)
    ELSE SubSeq(s, j, j) \in CasedSet

RECURSIVE CasedAfter(_, _)
\* Going on from position j over case-ignorable characters, a cased character
\* is found.
CasedAfter(s, j) ==
    IF j > Len(s) THEN FALSE
    ELSE IF SubSeq(s, j, j) \in CaseIgnorableSet THEN CasedAfter(s, j + 1)
    ELSE SubSeq(s, j, j) \in CasedSet

RECURSIVE LowerFrom(_, _)
\* str.lower() of s from position i on: a capital sigma that ends a word
\* becomes the final sigma, every other character its LowerChar.
LowerFrom(s, i) ==
    IF i > Len(s) THEN ""
    ELSE (IF SubSeq(s, i, i) = "Σ" /\ CasedBefore(s, i - 1) /\ ~CasedAfter(s, i + 1)
          THEN "ς" ELSE LowerChar(SubSeq(s, i, i)))
           \o LowerFrom(s, i + 1)

\* str.lower()
Lower(s) == LowerFrom(s, 1)

\* The whitespace characters (str.isspace: what str.strip removes and the
\* regex class \s matches): space, \t, \n, \r, \f, and U+000B, U+001C to
\* U+001F, U+0085, U+00A0 and U+1680.
WhitespaceChars == " \t\n\r\f  "
WhitespaceSet == {SubSeq(WhitespaceChars, i, i) : i \in 1..Len(WhitespaceChars)}

\* A whitespace character.
IsSpace(c) == c \in WhitespaceSet

RECURSIVE LStrip(_)
LStrip(s) ==
    IF Len(s) > 0 /\ IsSpace(SubSeq(s, 1, 1)) THEN LStrip(SubSeq(s, 2, Len(s))) ELSE s

RECURSIVE RStrip(_)
RStrip(s) ==
    IF Len(s) > 0 /\ IsSpace(SubSeq(s, Len(s), Len(s)))
    THEN RStrip(SubSeq(s, 1, Len(s) - 1)) ELSE s

\* str.strip()
Strip(s) == RStrip(LStrip(s))

\* str.startswith(p)
StartsWith(s, p) == Len(p) <= Len(s) /\ SubSeq(s, 1, Len(p)) = p

\* p in s
Contains(s, p) ==
    \E i \in 1..(Len(s) + 1) :
        i + Len(p) - 1 <= Len(s) /\ SubSeq(s, i, i + Len(p) - 1) = p

\* s[n:]
DropPrefix(s, n) == SubSeq(s, n + 1, Len(s))

(***************************************************************************)
(* VoiceRecognizer: wake phrases and wake detection.                       *)
(***************************************************************************)
wake_word == "nova"
alternative_wake_words == <<"hey nova", "hi nova", "hello nova", "hey nowa", "hi nowa">>

\* recognize_speech: the recognised text, lower-cased.
recognize_speech(text) == Lower(text)

\* detect_wake_word, after the capture: the wake word or an alternative phrase
\* occurs anywhere in the text.
WakeIn(text) ==
    LET text_lower == Lower(text)
    IN  \/ Contains(text_lower, wake_word)
        \/ \E k \in 1..Len(alternative_wake_words) :
              Contains(text_lower, alternative_wake_words[k])

\* As CommandAfterWake, for an extraction that knows the wake word only and
\* none of the alternative phrases.
CommandAfterWake_MainOnly(text) ==
    LET text_lower == Lower(text)
    IN  IF StartsWith(text_lower, wake_word)
        THEN Strip(DropPrefix(text_lower, Len(wake_word))) ELSE ""

\* The command detect_wake_word_and_command returns for a recognised text
\* ("" stands for None): the text after the wake word, else the text after the
\* first alternative phrase that is a prefix and leaves a non-empty rest.
CommandAfterWake(text) ==
    LET text_lower == Lower(text)
        main == IF StartsWith(text_lower, wake_word)
                THEN Strip(DropPrefix(text_lower, Len(wake_word))) ELSE ""
        hits == {k \in 1..Len(alternative_wake_words) :
                   /\ StartsWith(text_lower, alternative_wake_words[k])
                   /\ Strip(DropPrefix(text_lower, Len(alternative_wake_words[k]))) # ""}
    IN  IF main # "" THEN main
        ELSE IF hits # {}
             THEN LET k == CHOOSE j \in hits : \A h \in hits : j <= h
                  IN  Strip(DropPrefix(text_lower, Len(alternative_wake_words[k])))
             ELSE ""

\* The text begins with a wake phrase.
StartsWithWake(text) ==
    \/ StartsWith(Lower(text), wake_word)
    \/ \E k \in 1..Len(alternative_wake_words) :
          StartsWith(Lower(text), alternative_wake_words[k])

(***************************************************************************)
(* Regular expressions of the pattern tables, matched as re.search and     *)
(* re.match do.  An expression is a record; Ends(r, s, i) is the set of    *)
(* positions at which a match of r that starts at position i of s can end  *)
(* (positions run from 1 to Len(s) + 1).                                   *)
(***************************************************************************)
Lit(t) == [k |-> "lit", t |-> t]
WsPlus == [k |-> "ws+"]
WsStar == [k |-> "ws*"]
WsOpt == [k |-> "ws?"]
AnyStar == [k |-> "any*"]
Digits == [k |-> "d+"]
Alt(rs) == [k |-> "alt", rs |-> rs]
Cat(rs) == [k |-> "cat", rs |-> rs]
Opt(r) == [k |-> "opt", rs |-> <<r>>]

\* The decimal digits (the regex class \d, and what int() reads): 0-9, then
\* the digits of other scripts, each script's ten in order.
DigitChars == "0123456789۰۱۲۳۴۵۶۷۸۹߀߁߂߃߄߅߆߇߈߉০১২৩৪৫৬৭৮৯૦૧૨૩૪૫૬૭૮૯௦௧௨௩௪௫௬௭௮௯೦೧೨೩೪೫೬೭೮೯෦෧෨෩෪෫෬෭෮෯໐໑໒໓໔໕໖໗໘໙႐႑႒႓႔႕႖႗႘႙០១២៣៤៥៦៧៨៩᧐᧑᧒᧓᧔᧕᧖᧗᧘᧙᪀᪁᪂᪃᪄᪅᪆᪇᪈᪉᪐᪑᪒᪓᪔᪕᪖᪗᪘᪙᮰᮱᮲᮳᮴᮵᮶᮷᮸᮹꣐꣑꣒꣓꣔꣕꣖꣗꣘꣙꧐꧑꧒꧓꧔꧕꧖꧗꧘꧙꧰꧱꧲꧳꧴꧵꧶꧷꧸꧹꯰꯱꯲꯳꯴꯵꯶꯷꯸꯹"
DigitSet == {SubSeq(DigitChars, d, d) : d \in 1..Len(DigitChars)}
IsDigit(c) == c \in DigitSet
DigitVal(c) == ((CHOOSE d \in 1..Len(DigitChars) : SubSeq(DigitChars, d, d) = c) - 1) % 10

RECURSIVE ToNat(_)
\* int(s) of a string of decimal digits.
ToNat(s) ==
    IF Len(s) = 0 THEN 0
    ELSE 10 * ToNat(SubSeq(s, 1, Len(s) - 1)) + DigitVal(SubSeq(s, Len(s), Len(s)))

RECURSIVE ToStr(_)
\* str(n) of a natural number.
ToStr(n) ==
    IF n < 10 THEN SubSeq(DigitChars, n + 1, n + 1)
    ELSE ToStr(n \div 10) \o SubSeq(DigitChars, (n % 10) + 1, (n % 10) + 1)

\* Positions j >= i such that s[i..j-1] is all whitespace.
WsRun(s, i) ==
    {j \in i..(Len(s) + 1) : \A p \in i..(j - 1) : IsSpace(SubSeq(s, p, p))}

RECURSIVE Ends(_, _, _)
Ends(r, s, i) ==
    CASE r.k = "lit" ->
           IF i + Len(r.t) - 1 <= Len(s) /\ SubSeq(s, i, i + Len(r.t) - 1) = r.t
           THEN {i + Len(r.t)} ELSE {}
      [] r.k = "ws+" -> WsRun(s, i) \ {i}
      [] r.k = "ws*" -> WsRun(s, i)
      [] r.k = "ws?" -> {j \in WsRun(s, i) : j <= i + 1}
      [] r.k = "d+" ->
           {j \in (i + 1)..(Len(s) + 1) : \A p \in i..(j - 1) : IsDigit(SubSeq(s, p, p))}
      [] r.k = "any*" ->
           {j \in i..(Len(s) + 1) : \A p \in i..(j - 1) : SubSeq(s, p, p) # "\n"}
      [] r.k = "alt" -> UNION {Ends(r.rs[n], s, i) : n \in 1..Len(r.rs)}
      [] r.k = "opt" -> {i} \cup Ends(r.rs[1], s, i)
      [] r.k = "cat" ->
           IF Len(r.rs) = 0 THEN {i}
           ELSE UNION {Ends(Cat(Tail(r.rs)), s, j) : j \in Ends(Head(r.rs), s, i)}

\* re.search(r, s) finds a match.
Search(r, s) == \E i \in 1..(Len(s) + 1) : Ends(r, s, i) # {}

\* Where the leftmost match of re.search(r, s) starts (0: no match).
SearchStart(r, s) ==
    IF Search(r, s)
    THEN CHOOSE i \in 1..(Len(s) + 1) :
            /\ Ends(r, s, i) # {}
            /\ \A j \in 1..(i - 1) : Ends(r, s, j) = {}
    ELSE 0

\* The text of the leftmost match, match.group(0), with the greedy choice of
\* its end ("" when there is no match).
Group0(r, s) ==
    LET i == SearchStart(r, s)
    IN  IF i = 0 THEN ""
        ELSE LET e == CHOOSE j \in Ends(r, s, i) : \A h \in Ends(r, s, i) : h <= j
             IN  SubSeq(s, i, e - 1)

\* re.match(r, s, re.IGNORECASE), r a pattern written in lower case: a match
\* that starts at the beginning of s, whatever the case of its letters.
MatchAtStart(r, s) == Ends(r, Lower(s), 1) # {}

(***************************************************************************)
(* CommandProcessor: the builtin table, the pattern table and process.     *)
(***************************************************************************)
\* builtin_commands, in the order the dict is built: key and handler.
builtin_commands ==
    << <<"hello", "handle_hello">>, <<"hi", "handle_hello">>, <<"hey", "handle_hello">>,
       <<"time", "handle_time">>, <<"date", "handle_date">>, <<"help", "handle_help">>,
       <<"who are you", "handle_who_are_you">>,
       <<"what can you do", "handle_what_can_you_do">>,
       <<"thank you", "handle_thank_you">>, <<"thanks", "handle_thank_you">>,
       <<"exit", "handle_exit">>, <<"quit", "handle_exit">>,
       <<"stop listening", "handle_stop_listening">> >>

Machine == Alt(<<Lit("computer"), Lit("pc"), Lit("system")>>)

\* command_patterns: the categories in dict order, each with its patterns.
command_patterns ==
    << <<"app", << Cat(<<Lit("open"), WsPlus, AnyStar>>),
                   Cat(<<Lit("launch"), WsPlus, AnyStar>>),
                   Cat(<<Lit("start"), WsPlus, AnyStar>>),
                   Cat(<<Lit("run"), WsPlus, AnyStar>>) >> >>,
       <<"system", << Cat(<<Alt(<<Lit("shutdown"), Lit("turn off")>>), WsPlus, Machine>>),
                      Cat(<<Lit("restart"), WsPlus, Machine>>),
                      Cat(<<Lit("lock"), WsPlus, Machine>>),
                      Cat(<<Lit("sleep"), WsPlus, Machine>>),
                      Cat(<<Lit("hibernate"), WsPlus, Machine>>),
                      Cat(<<Lit("log"), WsOpt, Lit("out")>>) >> >>,
       <<"network", << Cat(<<Lit("turn"), WsPlus, Alt(<<Lit("on"), Lit("off")>>), WsPlus,
                             Alt(<<Lit("wifi"), Lit("wireless"), Lit("bluetooth")>>)>>),
                       Cat(<<Alt(<<Lit("show"), Lit("what is"), Lit("what's")>>), WsPlus,
                             Opt(Lit("my")), WsStar, Lit("ip address")>>),
                       Cat(<<Alt(<<Lit("connect"), Lit("disconnect")>>), WsPlus,
                             Alt(<<Lit("to"), Lit("from")>>), WsPlus, AnyStar>>) >> >>,
       <<"utility", << Cat(<<Lit("open"), WsPlus,
                             Alt(<<Lit("control panel"), Lit("task manager"),
                                   Lit("file explorer")>>)>>),
                       Cat(<<Alt(<<Lit("show"), Lit("list")>>), WsPlus,
                             Alt(<<Lit("running processes"), Lit("cpu usage"),
                                   Lit("memory usage")>>)>>),
                       Cat(<<Alt(<<Lit("set"), Lit("adjust")>>), WsPlus, Lit("volume"), WsPlus,
                             Alt(<<Lit("to"), Lit("up"), Lit("down"), Lit("mute")>>)>>) >> >> >>

RECURSIVE StripLeadingSeparators(_)
\* The characters the class [,\s]* consumes after the wake word.
StripLeadingSeparators(s) ==
    IF Len(s) > 0 /\ (SubSeq(s, 1, 1) = "," \/ IsSpace(SubSeq(s, 1, 1)))
    THEN StripLeadingSeparators(SubSeq(s, 2, Len(s))) ELSE s

\* _remove_wake_word
remove_wake_word(command_text) ==
    IF StartsWith(Lower(command_text), wake_word)
    THEN Strip(StripLeadingSeparators(DropPrefix(command_text, Len(wake_word))))
    ELSE command_text

\* As BuiltinIndex, for a process that lets the last builtin key the text
\* contains decide.
BuiltinIndex_Last(command_text) ==
    LET hits == {n \in 1..Len(builtin_commands) :
                    Contains(Lower(command_text), builtin_commands[n][1])}
    IN  IF hits = {} THEN 0 ELSE CHOOSE n \in hits : \A h \in hits : h <= n

\* The first builtin key, in table order, that the lower-cased text contains
\* (0: none).
BuiltinIndex(command_text) ==
    LET hits == {n \in 1..Len(builtin_commands) :
                    Contains(Lower(command_text), builtin_commands[n][1])}
    IN  IF hits = {} THEN 0 ELSE CHOOSE n \in hits : \A h \in hits : n <= h

\* As categorize_command, for a scan in which the last category with a
\* matching pattern wins.
categorize_command_LastCategory(command_text) ==
    LET command_lower == Lower(command_text)
        hit(c) == {n \in 1..Len(command_patterns[c][2]) :
                      Search(command_patterns[c][2][n], command_lower)}
        cats == {c \in 1..Len(command_patterns) : hit(c) # {}}
    IN  IF cats = {} THEN [category |-> "none", group0 |-> ""]
        ELSE LET c == CHOOSE k \in cats : \A h \in cats : h <= k
                 n == CHOOSE k \in hit(c) : \A h \in hit(c) : k <= h
             IN  [category |-> command_patterns[c][1],
                  group0 |-> Group0(command_patterns[c][2][n], command_lower)]

\* _categorize_command over a given value of self.command_patterns: the
\* first category, in the order of the dictionary, one of whose patterns
\* matches, with the first such pattern (category "none": no match).
categorize_over(patterns, command_text) ==
    LET command_lower == Lower(command_text)
        hit(c) == {n \in 1..Len(patterns[c][2]) :
                      Search(patterns[c][2][n], command_lower)}
        cats == {c \in 1..Len(patterns) : hit(c) # {}}
    IN  IF cats = {} THEN [category |-> "none", group0 |-> ""]
        ELSE LET c == CHOOSE k \in cats : \A h \in cats : k <= h
                 n == CHOOSE k \in hit(c) : \A h \in hit(c) : k <= h
             IN  [category |-> patterns[c][1],
                  group0 |-> Group0(patterns[c][2][n], command_lower)]

\* _categorize_command while self.command_patterns is the dictionary
\* __init__ made.
categorize_command(command_text) == categorize_over(command_patterns, command_text)

ContainsAny(s, keys) == \E n \in 1..Len(keys) : Contains(s, keys[n])

\* As KeywordCategory, for a fallback that takes every text for an
\* application request.
KeywordCategory_CatchAll(command_text) == "app"

\* The category of the keyword fallback of process ("none": no keyword).
KeywordCategory(command_text) ==
    LET t == Lower(command_text)
    IN  IF ContainsAny(t, <<"open", "launch", "start", "run">>) THEN "app"
        ELSE IF ContainsAny(t, <<"shutdown", "restart", "lock", "sleep", "hibernate",
                                 "log out">>) THEN "system"
        ELSE IF ContainsAny(t, <<"wifi", "wireless", "bluetooth", "ip address",
                                 "network">>) THEN "network"
        ELSE IF ContainsAny(t, <<"control panel", "task manager", "file explorer",
                                 "processes", "volume">>) THEN "utility"
        ELSE "none"

\* CommandProcessor.process up to the call of a handler: which handler the text
\* reaches, by which stage, and the text the handler is given.
\*   via: "empty" | "builtin" | "pattern" | "keyword" | "unrecognized"
Route(command_text) ==
    IF command_text = ""
    THEN [via |-> "empty", handler |-> "none", text |-> "", group0 |-> ""]
    ELSE LET text == remove_wake_word(command_text)
             b == BuiltinIndex(text)
             c == categorize_command(text)
             kw == KeywordCategory(text)
         IN  IF b # 0
             THEN [via |-> "builtin", handler |-> builtin_commands[b][2], text |-> text,
                   group0 |-> ""]
             ELSE IF c.category # "none"
             THEN [via |-> "pattern", handler |-> c.category, text |-> text,
                   group0 |-> c.group0]
             ELSE IF kw # "none"
             THEN [via |-> "keyword", handler |-> kw, text |-> text, group0 |-> ""]
             ELSE [via |-> "unrecognized", handler |-> "none", text |-> text,
                   group0 |-> ""]

(***************************************************************************)
(* SystemCommands: which operation a text reaches, and what it says.       *)
(***************************************************************************)
\* SystemCommands.command_patterns, in dict order: pattern and operation.
system_patterns ==
    << <<Cat(<<Alt(<<Lit("shutdown"), Lit("turn off")>>), WsPlus, Machine>>), "_shutdown">>,
       <<Cat(<<Lit("restart"), WsPlus, Machine>>), "_restart">>,
       <<Cat(<<Lit("log"), WsOpt, Lit("out")>>), "_logout">>,
       <<Cat(<<Lit("lock"), WsPlus, Machine>>), "_lock">>,
       <<Cat(<<Lit("sleep"), WsPlus, Machine>>), "_sleep">>,
       <<Cat(<<Lit("hibernate"), WsPlus, Machine>>), "_hibernate">> >>

\* SystemCommands.process: the operation run for a text and the matched text
\* the router passes along ("" when it passes no match); "none": no operation.
SystemOperation(command_text, group0) ==
    LET command_lower == Lower(command_text)
        byMatch == {n \in 1..Len(system_patterns) :
                       group0 # "" /\ MatchAtStart(system_patterns[n][1], group0)}
        bySearch == {n \in 1..Len(system_patterns) :
                       Search(system_patterns[n][1], command_lower)}
        first(S) == CHOOSE n \in S : \A h \in S : n <= h
    IN  IF byMatch # {} THEN system_patterns[first(byMatch)][2]
        ELSE IF bySearch # {} THEN system_patterns[first(bySearch)][2]
        ELSE IF Contains(command_lower, "shutdown") \/ Contains(command_lower, "turn off")
             THEN "_shutdown"
        ELSE IF Contains(command_lower, "restart") THEN "_restart"
        ELSE IF Contains(command_lower, "logout") \/ Contains(command_lower, "log out")
             THEN "_logout"
        ELSE IF Contains(command_lower, "lock") THEN "_lock"
        ELSE IF Contains(command_lower, "sleep") THEN "_sleep"
        ELSE IF Contains(command_lower, "hibernate") THEN "_hibernate"
        ELSE "none"

\* The number group(1) of the leftmost match of (\d+)\s+<unit> (0 when there
\* is no match is never used: callers test Search first).
DelayNumber(command_lower, unit) ==
    LET r == Cat(<<Digits, WsPlus, Lit(unit)>>)
        i == SearchStart(r, command_lower)
        e == CHOOSE j \in Ends(Digits, command_lower, i) :
                \A h \in Ends(Digits, command_lower, i) : h <= j
    IN  ToNat(SubSeq(command_lower, i, e - 1))

\* _extract_time_delay, in seconds.
extract_time_delay(command_text) ==
    LET command_lower == Lower(command_text)
    IN  IF Search(Cat(<<Digits, WsPlus, Lit("second")>>), command_lower)
        THEN DelayNumber(command_lower, "second")
        ELSE IF Search(Cat(<<Digits, WsPlus, Lit("minute")>>), command_lower)
        THEN DelayNumber(command_lower, "minute") * 60
        ELSE IF Search(Cat(<<Digits, WsPlus, Lit("hour")>>), command_lower)
        THEN DelayNumber(command_lower, "hour") * 3600
        ELSE 0

\* ' in N seconds' or ' now'
WhenText(command_text) ==
    LET delay == extract_time_delay(command_text)
    IN  IF delay > 0 THEN " in " \o ToStr(delay) \o " seconds" ELSE " now"

\* What a system operation says before it returns (the confirmation it speaks
\* through assistant.speak; "" when it speaks none).
SystemConfirmation(op, command_text) ==
    CASE op = "_shutdown" ->
           "I'll shut down your computer" \o WhenText(command_text) \o ". Are you sure?"
      [] op = "_restart" ->
           "I'll restart your computer" \o WhenText(command_text) \o ". Are you sure?"
      [] op = "_logout" -> "I'll log you out. Are you sure?"
      [] op = "_sleep" -> "I'll put your computer to sleep. Are you sure?"
      [] op = "_hibernate" -> "I'll hibernate your computer. Are you sure?"
      [] OTHER -> ""

\* The response a system operation returns when its confirmation was spoken.
SystemResponse(op, command_text) ==
    CASE op = "_shutdown" ->
           "I'll shut down your computer" \o WhenText(command_text) \o " after confirmation."
      [] op = "_restart" ->
           "I'll restart your computer" \o WhenText(command_text) \o " after confirmation."
      [] op = "_logout" -> "I'll log you out after confirmation."
      [] op = "_lock" -> "Locking your computer."
      [] op = "_sleep" -> "I'll put your computer to sleep after confirmation."
      [] op = "_hibernate" -> "I'll hibernate your computer after confirmation."
      [] OTHER -> "I'm not sure which system command you want to execute. "
                  \o "Try saying 'shutdown', 'restart', 'lock', 'sleep', 'hibernate', or 'log out'."

(***************************************************************************)
(* What a routed command does when its handler runs.                       *)
(***************************************************************************)
greetings ==
    {"Hello! I'm Nova, your virtual assistant.", "Hi there! Nova at your service.",
     "Greetings! Nova is ready to assist you.", "Hello! Nova is listening.",
     "Hi! I'm Nova, how can I help you today?"}

thanks_responses ==
    {"You're welcome!", "Happy to help!", "No problem at all!", "Anytime!",
     "Glad I could assist!"}

\* As ApologyText, for a process_command whose except clause says nothing.
ApologyText_Silent == ""

ApologyText == "I'm sorry, I encountered an error while processing your request."

\* The handler calls assistant.stop() before it returns.
HandlerStops(r) == r.handler \in {"handle_exit", "handle_stop_listening"}

\* The handler acts on the operating system (subprocess, psutil, ctypes): what
\* it answers, and whether it raises, is decided outside the program.
HandlerIsExternal(r) == r.handler \in {"app", "network", "utility"}

\* The confirmation the handler speaks itself, before it returns ("" for none).
HandlerConfirmation(r) ==
    IF r.handler = "system"
    THEN SystemConfirmation(SystemOperation(r.text, r.group0), r.text)
    ELSE ""

\* str(e) of the exception a callback of NovaUI raised.
CallbackError == "callback failed"

\* The response a system operation returns from its except clause, when its
\* own assistant.speak raised.
SystemFailure(op) ==
    CASE op = "_shutdown" -> "I couldn't shutdown your computer. Error: " \o CallbackError
      [] op = "_restart" -> "I couldn't restart your computer. Error: " \o CallbackError
      [] op = "_logout" -> "I couldn't log you out. Error: " \o CallbackError
      [] op = "_sleep" -> "I couldn't put your computer to sleep. Error: " \o CallbackError
      [] OTHER -> "I couldn't hibernate your computer. Error: " \o CallbackError

\* The responses process can return for a routed command: when the handler's
\* own assistant.speak raised (only a handler that speaks a confirmation
\* calls it), and otherwise.
Responses(r, speak_raised) ==
    CASE speak_raised ->
           IF HandlerConfirmation(r) = "" THEN {}
           ELSE {SystemFailure(SystemOperation(r.text, r.group0))}
      [] r.via = "empty" -> {"I didn't catch that. Can you please repeat?"}
      [] r.via = "unrecognized" ->
           {"I'm not sure how to handle '" \o r.text
              \o "'. Try asking for help to see what I can do."}
      [] r.handler = "handle_hello" -> greetings
      [] r.handler = "handle_time" -> {"The current time is 09:30 AM."}
      [] r.handler = "handle_date" -> {"Today is Friday, October 30, 2026."}
      [] r.handler = "handle_help" ->
           {"I can help you with various tasks. Try commands like:\n- Open Chrome\n"
              \o "- What time is it?\n- Shutdown my computer\n- Turn off WiFi\n"
              \o "- Show my IP address\n- Open Task Manager"}
      [] r.handler = "handle_who_are_you" ->
           {"I'm Nova, your personal AI assistant. I'm designed to help you "
              \o "control your computer, open applications, and provide information "
              \o "through voice commands."}
      [] r.handler = "handle_what_can_you_do" ->
           {"I can help you with various tasks on your computer. I can open applications, "
              \o "control system functions like shutdown or restart, manage network settings, "
              \o "and open system utilities. Just tell me what you need!"}
      [] r.handler = "handle_thank_you" -> thanks_responses
      [] r.handler = "handle_exit" -> {"Goodbye! Nova is shutting down."}
      [] r.handler = "handle_stop_listening" ->
           {"I'll stop listening now. Call my name if you need me again."}
      [] r.handler = "system" -> {SystemResponse(SystemOperation(r.text, r.group0), r.text)}
      [] OTHER -> {"<" \o r.handler \o " handler response>"}

(***************************************************************************)
(* The running program: the threads of NovaAssistant and NovaUI.           *)
(***************************************************************************)
\* "loop": the thread start() creates for listen_continuously.
\* "main": the thread that owns the assistant (the Qt thread when NovaUI is
\*         attached): it calls start(), stop() and the UI's slots.
\* "direct": the thread toggle_voice_input starts for listen_for_direct_command.
Threads == {"loop", "main", "direct"}

\* What the recogniser can hear, as recognize_google returns it.
Utterances == {"Nova", "hey nova shutdown computer", "nova exit", "nova stop listening", "xyzzy"}

\* What the user can type into the UI's text field.
TextCommands == {"exit", "shutdown computer"}

\* Every command text that can reach process_command.
CommandPool ==
    {Lower(u) : u \in Utterances} \cup {CommandAfterWake(Lower(u)) : u \in Utterances}
        \cup {Strip(c) : c \in TextCommands}

\* The wake detection and the routing of the texts above, worked out once.
HeardTable ==
    [u \in Utterances |->
        [text |-> recognize_speech(u),
         command |-> CommandAfterWake(recognize_speech(u)),
         wake |-> WakeIn(recognize_speech(u))]]
RouteTable == [c \in CommandPool |-> Route(c)]
ResponseTable == [c \in CommandPool |-> Responses(Route(c), FALSE)]
FailureTable == [c \in CommandPool |-> Responses(Route(c), TRUE)]
ConfirmationTable == [c \in CommandPool |-> HandlerConfirmation(Route(c))]

VARIABLES
    ui_attached,         \* NovaUI replaced the assistant's callbacks
    start_timer,         \* the QTimer.singleShot(1000, self.assistant.start) of
                         \* NovaUI.__init__ has not fired yet
    self_command_patterns, \* CommandProcessor.command_patterns (the dictionary
                         \* _categorize_command iterates over)
    caught,              \* the call in the try block of each thread's
                         \* process_command whose exception its except clause
                         \* caught: "process", "speak", or "" for none
    is_listening,        \* NovaAssistant.is_listening
    is_processing,       \* NovaAssistant.is_processing
    is_speaking,         \* NovaAssistant.is_speaking
    wake_word_detected,  \* NovaAssistant.wake_word_detected
    stop_listening,      \* NovaAssistant.stop_listening (the Event is set)
    pc,                  \* where each thread is
    command,             \* the command_text each thread is processing
    response,            \* process_command's response on each thread, from the
                         \* return of process until it is spoken ("" otherwise)
    ret,                 \* where each thread's process_command returns to
    raising,             \* an exception is leaving each thread's process_command
    speaking,            \* the live speak threads, in the order speak() made them
    inputs,              \* audio the environment has supplied so far
    user_actions,        \* text commands and voice-button clicks so far
    heard,               \* loop: the text detect_wake_word_and_command recognised
                         \*       in this iteration ("" for none)
    acks,                \* loop: on_wake_word_detected calls in this iteration
    last_call,           \* the latest of the calls of start() and stop() ("none"
                         \* before the first)
    orphans,             \* live threads running listen_continuously that
                         \* listening_thread no longer refers to
    calls                \* the calls made directly to CommandProcessor and
                         \* VoiceRecognizer methods, with what each returned

vars == <<ui_attached, start_timer, self_command_patterns, caught, is_listening, is_processing, is_speaking, wake_word_detected,
          stop_listening, pc, command, response, ret, raising, speaking, inputs,
          user_actions, heard, acks, last_call, orphans, calls>>

flags == <<is_listening, is_processing, is_speaking, wake_word_detected>>

\* NovaAssistant.__init__; with a UI, main() of main.py goes on to
\* NovaUI.__init__ and ui.show(), and is about to speak its welcome.
Init ==
    /\ ui_attached \in BOOLEAN
    /\ start_timer = ui_attached
    /\ self_command_patterns = command_patterns
    /\ caught = [t \in Threads |-> ""]
    /\ is_listening = FALSE
    /\ is_processing = FALSE
    /\ is_speaking = FALSE
    /\ wake_word_detected = FALSE
    /\ stop_listening = FALSE
    /\ pc = [t \in Threads |-> IF t # "main" THEN "none"
                                ELSE IF ui_attached THEN "welcome" ELSE "idle"]
    /\ command = [t \in Threads |-> ""]
    /\ response = [t \in Threads |-> ""]
    /\ ret = [t \in Threads |-> ""]
    /\ raising = [t \in Threads |-> FALSE]
    /\ speaking = <<>>
    /\ inputs = 0
    /\ user_actions = 0
    /\ heard = ""
    /\ acks = 0
    /\ last_call = "none"
    /\ orphans = 0
    /\ calls = <<>>

\* listening_thread is not None and listening_thread.is_alive()
LoopAlive == pc["loop"] \notin {"none", "exited"}

\* A blocking audio capture (listen_for_audio) is in progress on the thread.
CapturePcs == {"dwwc_listen", "dww_listen", "lfc_listen"}
\* The captures the loop issues with timeout=None.
UntimedCapturePcs == {"dwwc_listen", "dww_listen"}
\* The thread is inside process_command.
ProcessPcs == {"pc_start", "pc_process", "pc_join", "pc_speak", "pc_except", "pc_finally"}

\* A callback NovaUI installed touches Qt widgets; called off the Qt thread it
\* may raise.  The assistant's own callbacks are empty and never raise.
CallbackMayRaise(t) == ui_attached /\ t # "main"

\* As ExceptionTarget, with no except clause around the body of the loop: an
\* exception ends the loop thread.
ExceptionTarget_Uncaught(t) ==
    CASE t = "loop" -> "exited"
      [] t = "direct" -> "none"
      [] OTHER -> "idle"

\* Where an exception that leaves the thread's current call is caught:
\* the except clause of listen_continuously (the loop sleeps and goes on),
\* the except clause of listen_for_direct_command (the thread ends), or the
\* Qt event loop, which reports it and takes the next event.
ExceptionTarget(t) ==
    CASE t = "loop" -> "sleep"
      [] t = "direct" -> "none"
      [] OTHER -> "idle"

\* speak(text): the new list of speak threads.
Speak(sp, text) ==
    IF text = "" THEN sp ELSE Append(sp, [text |-> text, st |-> "ready"])

\* NovaAssistant.on_wake_word_detected speaks an acknowledgment; the callback
\* NovaUI puts in its place starts an animation and speaks nothing.
wake_word_responses ==
    <<"Yes?", "I'm listening", "How can I help?", "What can I do for you?", "I'm here">>
AckTexts ==
    IF ui_attached THEN {""}
    ELSE {wake_word_responses[k] : k \in 1..Len(wake_word_responses)}

(***************************************************************************)
(* main() of main.py: the welcome, spoken on the Qt thread before the      *)
(* event loop runs (before the timer of NovaUI can call start()).          *)
(***************************************************************************)
WelcomeText == "Hello, I am Nova, your virtual assistant. How can I help you today?"

Welcome ==
    /\ pc["main"] = "welcome"
    /\ speaking' = Speak(speaking, WelcomeText)
    /\ is_speaking' = TRUE
    /\ pc' = [pc EXCEPT !["main"] = "idle"]
    /\ UNCHANGED <<last_call, orphans, calls, ui_attached, start_timer, self_command_patterns, caught, is_listening, is_processing, wake_word_detected,
                   stop_listening, command, response, ret, raising, inputs, user_actions, heard, acks>>

(***************************************************************************)
(* NovaAssistant.start and stop, called on the main thread.                *)
(***************************************************************************)
\* As StartsThread, for a start() that makes a new thread on every call.
StartsThread_Always == TRUE

\* if self.listening_thread is None or not self.listening_thread.is_alive()
StartsThread == ~LoopAlive

\* start(): the stop signal is cleared and a new loop thread is made the
\* listening_thread, unless the current one is alive: then nothing happens.
start ==
    /\ last_call' = "start"
    /\ IF StartsThread
       THEN /\ stop_listening' = FALSE
            /\ orphans' = orphans + (IF LoopAlive THEN 1 ELSE 0)
            /\ pc' = [pc EXCEPT !["loop"] = "while"]
            /\ heard' = ""
            /\ acks' = 0
       ELSE UNCHANGED <<stop_listening, orphans, pc, heard, acks>>
    /\ UNCHANGED <<calls, ui_attached, self_command_patterns, caught, flags, command, response, ret, raising,
                   speaking, inputs, user_actions>>

\* start() called by the owner of the assistant.
Start ==
    /\ pc["main"] = "idle"
    /\ start
    /\ UNCHANGED start_timer

\* The timer of NovaUI.__init__ fires in the event loop: start() is called.
TimerStart ==
    /\ start_timer
    /\ pc["main"] = "idle"
    /\ start_timer' = FALSE
    /\ start

\* stop(): the stop signal is set and the caller joins the loop thread, if
\* that thread is alive; otherwise nothing happens.
Stop ==
    /\ pc["main"] = "idle"
    /\ last_call' = "stop"
    /\ IF LoopAlive
       THEN /\ stop_listening' = TRUE
            /\ pc' = [pc EXCEPT !["main"] = "join"]
       ELSE UNCHANGED <<stop_listening, pc>>
    /\ UNCHANGED <<orphans, calls, ui_attached, start_timer, self_command_patterns, caught, flags, command, response, ret, raising, speaking, inputs, user_actions, heard, acks>>

\* join(timeout=2.0) returns: the loop thread ended, or two seconds passed.
StopReturns ==
    /\ pc["main"] = "join"
    /\ pc' = [pc EXCEPT !["main"] = "idle"]
    /\ UNCHANGED <<last_call, orphans, calls, ui_attached, start_timer, self_command_patterns, caught, flags, stop_listening, command, response, ret, raising, speaking,
                   inputs, user_actions, heard, acks>>

(***************************************************************************)
(* NovaAssistant.listen_continuously, on the loop thread.                  *)
(***************************************************************************)
\* while not self.stop_listening.is_set(): the loop ends, or it enters
\* detect_wake_word_and_command and blocks in listen_for_audio(None).
LoopWhile ==
    /\ pc["loop"] = "while"
    /\ pc' = [pc EXCEPT !["loop"] = IF stop_listening THEN "exited" ELSE "dwwc_listen"]
    /\ heard' = ""
    /\ acks' = 0
    /\ UNCHANGED <<last_call, orphans, calls, ui_attached, start_timer, self_command_patterns, caught, flags, stop_listening, command, response, ret, raising, speaking,
                   inputs, user_actions>>

\* detect_wake_word_and_command hears an utterance.  With a command after the
\* wake phrase the loop processes it (unless stopped); otherwise the wake
\* acknowledgment is called and the loop goes on to detect_wake_word.
LoopHearsFirst(u) ==
    /\ pc["loop"] = "dwwc_listen"
    /\ inputs < MaxInputs
    /\ Len(speaking) <= MaxBacklog
    /\ inputs' = inputs + 1
    /\ UNCHANGED user_actions
    /\ heard' = HeardTable[u].text
    /\ LET cmd == HeardTable[u].command
       IN  IF cmd # ""
           THEN /\ IF ~stop_listening
                   THEN /\ pc' = [pc EXCEPT !["loop"] = "pc_start"]
                        /\ command' = [command EXCEPT !["loop"] = cmd]
                        /\ ret' = [ret EXCEPT !["loop"] = "while"]
                   ELSE /\ pc' = [pc EXCEPT !["loop"] = "dww_listen"]
                        /\ UNCHANGED <<command, ret>>
                /\ UNCHANGED <<acks, speaking, flags>>
           ELSE /\ acks' = acks + 1
                /\ UNCHANGED <<command, ret, is_listening, is_processing>>
                /\ \/ /\ \E a \in AckTexts :
                            /\ speaking' = Speak(speaking, a)
                            /\ is_speaking' = (is_speaking \/ a # "")
                            /\ wake_word_detected' = (wake_word_detected \/ ~ui_attached)
                      /\ pc' = [pc EXCEPT !["loop"] = "dww_listen"]
                   \/ /\ CallbackMayRaise("loop")
                      /\ pc' = [pc EXCEPT !["loop"] = ExceptionTarget("loop")]
                      /\ UNCHANGED <<speaking, is_speaking, wake_word_detected>>
    /\ UNCHANGED <<last_call, orphans, calls, ui_attached, start_timer, self_command_patterns, caught, stop_listening, raising, response>>

\* A capture of the loop that has a finite timeout runs out, or audio arrives
\* that is not recognised (unintelligible, or the service fails): the
\* detection returns None or False, the command capture returns None.
LoopAfterNothing ==
    CASE pc["loop"] = "dwwc_listen" -> "dww_listen"
      [] pc["loop"] = "dww_listen" -> "while"
      [] OTHER -> "listen_done"

LoopHearsNothing ==
    /\ pc["loop"] \in CapturePcs
    /\ inputs < MaxInputs
    /\ Len(speaking) <= MaxBacklog
    /\ inputs' = inputs + 1
    /\ UNCHANGED user_actions
    /\ pc' = [pc EXCEPT !["loop"] = LoopAfterNothing]
    /\ UNCHANGED <<last_call, orphans, calls, ui_attached, start_timer, self_command_patterns, caught, flags, stop_listening, command, response, ret, raising, speaking,
                   heard, acks>>

\* listen(source, timeout=5) raises WaitTimeoutError: only the command capture
\* has a timeout.
LoopCaptureTimesOut ==
    /\ pc["loop"] \in CapturePcs \ UntimedCapturePcs
    /\ pc' = [pc EXCEPT !["loop"] = LoopAfterNothing]
    /\ UNCHANGED <<last_call, orphans, calls, ui_attached, start_timer, self_command_patterns, caught, flags, stop_listening, command, response, ret, raising, speaking,
                   inputs, user_actions, heard, acks>>

\* sr.Microphone() cannot open the device: listen_for_audio raises.
LoopCaptureRaises ==
    /\ pc["loop"] \in CapturePcs
    /\ pc' = [pc EXCEPT !["loop"] = ExceptionTarget("loop")]
    /\ UNCHANGED <<last_call, orphans, calls, ui_attached, start_timer, self_command_patterns, caught, flags, stop_listening, command, response, ret, raising, speaking,
                   inputs, user_actions, heard, acks>>

\* detect_wake_word hears an utterance; with a wake phrase in it and the stop
\* signal clear, the loop sets its flags and calls on_listening_started.
LoopHearsWake(u) ==
    /\ pc["loop"] = "dww_listen"
    /\ inputs < MaxInputs
    /\ Len(speaking) <= MaxBacklog
    /\ inputs' = inputs + 1
    /\ UNCHANGED user_actions
    /\ IF HeardTable[u].wake /\ ~stop_listening
       THEN /\ is_listening' = TRUE
            /\ wake_word_detected' = TRUE
            /\ \/ pc' = [pc EXCEPT !["loop"] = "ack1"]
               \/ /\ CallbackMayRaise("loop")
                  /\ pc' = [pc EXCEPT !["loop"] = ExceptionTarget("loop")]
       ELSE /\ pc' = [pc EXCEPT !["loop"] = "while"]
            /\ UNCHANGED <<is_listening, wake_word_detected>>
    /\ UNCHANGED <<last_call, orphans, calls, ui_attached, start_timer, self_command_patterns, caught, is_processing, is_speaking, stop_listening, command, response, ret,
                   raising, speaking, heard, acks>>

\* self.on_wake_word_detected() in the loop, then again at the top of
\* listen_for_command, which goes on to block in listen_for_audio(5).
LoopAcknowledges ==
    /\ pc["loop"] \in {"ack1", "ack2"}
    /\ acks' = acks + 1
    /\ \/ /\ \E a \in AckTexts :
                /\ speaking' = Speak(speaking, a)
                /\ is_speaking' = (is_speaking \/ a # "")
                /\ wake_word_detected' = (wake_word_detected \/ ~ui_attached)
          /\ pc' = [pc EXCEPT !["loop"] = IF pc["loop"] = "ack1" THEN "ack2"
                                          ELSE "lfc_listen"]
       \/ /\ CallbackMayRaise("loop")
          /\ pc' = [pc EXCEPT !["loop"] = ExceptionTarget("loop")]
          /\ UNCHANGED <<speaking, is_speaking, wake_word_detected>>
    /\ UNCHANGED <<last_call, orphans, calls, ui_attached, start_timer, self_command_patterns, caught, is_listening, is_processing, stop_listening, command, response, ret,
                   raising, inputs, user_actions, heard>>

\* listen_for_command hears the command: the loop processes it.
LoopHearsCommand(u) ==
    /\ pc["loop"] = "lfc_listen"
    /\ inputs < MaxInputs
    /\ Len(speaking) <= MaxBacklog
    /\ inputs' = inputs + 1
    /\ UNCHANGED user_actions
    /\ pc' = [pc EXCEPT !["loop"] = "pc_start"]
    /\ command' = [command EXCEPT !["loop"] = HeardTable[u].text]
    /\ ret' = [ret EXCEPT !["loop"] = "listen_done"]
    /\ UNCHANGED <<last_call, orphans, calls, ui_attached, start_timer, self_command_patterns, caught, flags, stop_listening, raising, response, speaking,
                   heard, acks>>

\* Done listening: the flags are cleared and on_listening_stopped is called.
LoopListenDone ==
    /\ pc["loop"] = "listen_done"
    /\ is_listening' = FALSE
    /\ wake_word_detected' = FALSE
    /\ \/ pc' = [pc EXCEPT !["loop"] = "while"]
       \/ /\ CallbackMayRaise("loop")
          /\ pc' = [pc EXCEPT !["loop"] = ExceptionTarget("loop")]
    /\ UNCHANGED <<last_call, orphans, calls, ui_attached, start_timer, self_command_patterns, caught, is_processing, is_speaking, stop_listening, command, response, ret,
                   raising, speaking, inputs, user_actions, heard, acks>>

\* except Exception: time.sleep(1), and the loop tests the stop signal again.
LoopSleep ==
    /\ pc["loop"] = "sleep"
    /\ pc' = [pc EXCEPT !["loop"] = "while"]
    /\ UNCHANGED <<last_call, orphans, calls, ui_attached, start_timer, self_command_patterns, caught, flags, stop_listening, command, response, ret, raising, speaking,
                   inputs, user_actions, heard, acks>>

(***************************************************************************)
(* NovaAssistant.process_command, on whichever thread calls it.            *)
(***************************************************************************)
\* is_processing = True; on_processing_started()
ProcessStart(t) ==
    /\ pc[t] = "pc_start"
    /\ is_processing' = TRUE
    /\ \/ pc' = [pc EXCEPT ![t] = "pc_process"]
          /\ UNCHANGED <<command, ret>>
       \/ /\ CallbackMayRaise(t)
          /\ pc' = [pc EXCEPT ![t] = ExceptionTarget(t)]
          /\ command' = [command EXCEPT ![t] = ""]
          /\ ret' = [ret EXCEPT ![t] = ""]
    /\ UNCHANGED <<last_call, orphans, calls, ui_attached, start_timer, self_command_patterns, caught, is_listening, is_speaking, wake_word_detected,
                   stop_listening, raising, response, speaking, inputs, user_actions, heard, acks>>

\* As SpeakOrRaise, for a speak that plays the text itself and returns only when
\* the playback is over: the caller waits inside speak.
SpeakOrRaise_Blocking(t, sp, text, whereTo) ==
    /\ speaking' = Speak(sp, text)
    /\ is_speaking' = (is_speaking \/ sp # speaking \/ text # "")
    /\ pc' = [pc EXCEPT ![t] = "speak_wait"]
    /\ UNCHANGED raising

\* speak(text) called in process_command: the flag is set, on_speaking_started
\* is called and the speak thread is started (next: the finally clause); or the
\* callback raises after the flag is set (next: whereTo).
SpeakOrRaise(t, sp, text, whereTo) ==
    \/ /\ speaking' = Speak(sp, text)
       /\ is_speaking' = (is_speaking \/ sp # speaking \/ text # "")
       /\ pc' = [pc EXCEPT ![t] = "pc_finally"]
       /\ UNCHANGED raising
    \/ /\ CallbackMayRaise(t)
       /\ text # ""
       /\ speaking' = sp
       /\ is_speaking' = TRUE
       /\ pc' = [pc EXCEPT ![t] = whereTo]
       /\ raising' = [raising EXCEPT ![t] = (whereTo = "pc_finally")]

\* response = self.command_processor.process(command_text): the handler
\* runs.  A handler that stops the assistant sets the stop signal and joins
\* the loop thread: on the loop thread itself the join raises.  A system
\* operation speaks its confirmation and returns its response; when that
\* speak raises (the flag is set, no thread is started) its except clause
\* returns the failure text instead.  An operating-system handler may raise.
ProcessRoute(t) ==
    /\ pc[t] = "pc_process"
    /\ LET r == RouteTable[command[t]]
           confirmation == ConfirmationTable[command[t]]
       IN  IF HandlerStops(r) /\ LoopAlive
           THEN /\ stop_listening' = TRUE
                /\ pc' = [pc EXCEPT ![t] = IF t = "loop" THEN "pc_except" ELSE "pc_join"]
                /\ UNCHANGED <<speaking, is_speaking, response>>
           ELSE /\ UNCHANGED stop_listening
                /\ \/ /\ \E resp \in ResponseTable[command[t]] :
                            response' = [response EXCEPT ![t] = resp]
                      /\ speaking' = Speak(speaking, confirmation)
                      /\ is_speaking' = (is_speaking \/ confirmation # "")
                      /\ pc' = [pc EXCEPT ![t] = "pc_speak"]
                   \/ /\ CallbackMayRaise(t)
                      /\ \E resp \in FailureTable[command[t]] :
                            response' = [response EXCEPT ![t] = resp]
                      /\ is_speaking' = TRUE
                      /\ pc' = [pc EXCEPT ![t] = "pc_speak"]
                      /\ UNCHANGED speaking
                   \/ /\ HandlerIsExternal(r)
                      /\ pc' = [pc EXCEPT ![t] = "pc_except"]
                      /\ UNCHANGED <<speaking, is_speaking, response>>
    /\ last_call' = IF HandlerStops(RouteTable[command[t]]) THEN "stop" ELSE last_call
    /\ caught' = [caught EXCEPT ![t] = IF pc'[t] = "pc_except" THEN "process" ELSE ""]
    /\ UNCHANGED <<orphans, calls, ui_attached, start_timer, self_command_patterns, is_listening, is_processing, wake_word_detected, command,
                   ret, raising, inputs, user_actions, heard, acks>>

\* The join inside a handler's stop() returns (the loop thread ended, or two
\* seconds passed); the handler returns its response.
ProcessJoinReturns(t) ==
    /\ pc[t] = "pc_join"
    /\ \E resp \in ResponseTable[command[t]] : response' = [response EXCEPT ![t] = resp]
    /\ pc' = [pc EXCEPT ![t] = "pc_speak"]
    /\ UNCHANGED <<last_call, orphans, calls, ui_attached, start_timer, self_command_patterns, caught, flags, stop_listening, command, ret, raising,
                   speaking, inputs, user_actions, heard, acks>>

\* if response: self.speak(response)
ProcessSpeak(t) ==
    /\ pc[t] = "pc_speak"
    /\ SpeakOrRaise(t, speaking, response[t], "pc_except")
    /\ response' = [response EXCEPT ![t] = ""]
    /\ caught' = [caught EXCEPT ![t] = IF pc'[t] = "pc_except" THEN "speak" ELSE ""]
    /\ UNCHANGED <<last_call, orphans, calls, ui_attached, start_timer, self_command_patterns, is_listening, is_processing, wake_word_detected,
                   stop_listening, command, ret, inputs, user_actions, heard, acks>>

\* except Exception: speak the apology.
ProcessExcept(t) ==
    /\ pc[t] = "pc_except"
    /\ SpeakOrRaise(t, speaking, ApologyText, "pc_finally")
    /\ UNCHANGED <<last_call, orphans, calls, ui_attached, start_timer, self_command_patterns, caught, is_listening, is_processing, wake_word_detected,
                   stop_listening, command, response, ret, inputs, user_actions, heard, acks>>

\* finally: is_processing = False; on_processing_stopped().  The call returns,
\* or an exception (a pending one, or the callback's) leaves it.
ProcessFinally(t) ==
    /\ pc[t] = "pc_finally"
    /\ is_processing' = FALSE
    /\ raising' = [raising EXCEPT ![t] = FALSE]
    /\ \/ pc' = [pc EXCEPT ![t] = IF raising[t] THEN ExceptionTarget(t) ELSE ret[t]]
       \/ /\ CallbackMayRaise(t)
          /\ pc' = [pc EXCEPT ![t] = ExceptionTarget(t)]
    /\ command' = [command EXCEPT ![t] = ""]
    /\ ret' = [ret EXCEPT ![t] = ""]
    /\ caught' = [caught EXCEPT ![t] = ""]
    /\ UNCHANGED <<last_call, orphans, calls, ui_attached, start_timer, self_command_patterns, is_listening, is_speaking, wake_word_detected,
                   stop_listening, response, speaking, inputs, user_actions, heard, acks>>

(***************************************************************************)
(* The speak threads.                                                      *)
(***************************************************************************)
\* A speak thread enters engine.say(text); engine.runAndWait().
SpeakThreadPlays(i) ==
    /\ i \in 1..Len(speaking)
    /\ speaking[i].st = "ready"
    /\ speaking' = [speaking EXCEPT ![i].st = "playing"]
    /\ UNCHANGED <<last_call, orphans, calls, ui_attached, start_timer, self_command_patterns, caught, flags, stop_listening, pc, command, response, ret, raising, inputs, user_actions,
                   heard, acks>>

\* The text-to-speech call returns or raises; finally: is_speaking = False,
\* on_speaking_stopped(), and the thread ends.
SpeakThreadEnds(i) ==
    /\ i \in 1..Len(speaking)
    /\ speaking[i].st = "playing"
    /\ speaking' = SubSeq(speaking, 1, i - 1) \o SubSeq(speaking, i + 1, Len(speaking))
    /\ is_speaking' = FALSE
    /\ UNCHANGED <<last_call, orphans, calls, ui_attached, start_timer, self_command_patterns, caught, is_listening, is_processing, wake_word_detected,
                   stop_listening, pc, command, response, ret, raising, inputs, user_actions, heard, acks>>

(***************************************************************************)
(* NovaUI: the slots of the Qt thread and the direct-command thread.       *)
(***************************************************************************)
\* send_text_command: the typed text, stripped, is processed on the Qt thread.
SendTextCommand(c) ==
    /\ ui_attached
    /\ pc["main"] = "idle"
    /\ user_actions < MaxUserActions
    /\ Len(speaking) <= MaxBacklog
    /\ Strip(c) # ""
    /\ user_actions' = user_actions + 1
    /\ UNCHANGED inputs
    /\ pc' = [pc EXCEPT !["main"] = "pc_start"]
    /\ command' = [command EXCEPT !["main"] = Strip(c)]
    /\ ret' = [ret EXCEPT !["main"] = "idle"]
    /\ UNCHANGED <<last_call, orphans, calls, ui_attached, start_timer, self_command_patterns, caught, flags, stop_listening, raising, response, speaking,
                   heard, acks>>

\* toggle_voice_input while the assistant is not listening: a thread is
\* started for listen_for_direct_command.  (While it is listening the slot
\* calls stop(): that is Stop.)
ToggleVoiceInput ==
    /\ ui_attached
    /\ pc["main"] = "idle"
    /\ ~is_listening
    /\ pc["direct"] = "none"
    /\ user_actions < MaxUserActions
    /\ Len(speaking) <= MaxBacklog
    /\ user_actions' = user_actions + 1
    /\ pc' = [pc EXCEPT !["direct"] = "ack"]
    /\ UNCHANGED <<last_call, orphans, calls, ui_attached, start_timer, self_command_patterns, caught, flags, stop_listening, command, response, ret, raising, speaking,
                   inputs, heard, acks>>

\* listen_for_command on the direct thread: the wake callback of the UI, then
\* the capture with its five-second timeout.
DirectAcknowledges ==
    /\ pc["direct"] = "ack"
    /\ \/ pc' = [pc EXCEPT !["direct"] = "lfc_listen"]
       \/ /\ CallbackMayRaise("direct")
          /\ pc' = [pc EXCEPT !["direct"] = ExceptionTarget("direct")]
    /\ UNCHANGED <<last_call, orphans, calls, ui_attached, start_timer, self_command_patterns, caught, flags, stop_listening, command, response, ret, raising, speaking,
                   inputs, user_actions, heard, acks>>

\* The direct capture hears a command: add_user_message, then process_command.
DirectHearsCommand(u) ==
    /\ pc["direct"] = "lfc_listen"
    /\ inputs < MaxInputs
    /\ Len(speaking) <= MaxBacklog
    /\ inputs' = inputs + 1
    /\ UNCHANGED user_actions
    /\ \/ /\ pc' = [pc EXCEPT !["direct"] = "pc_start"]
          /\ command' = [command EXCEPT !["direct"] = HeardTable[u].text]
          /\ ret' = [ret EXCEPT !["direct"] = "none"]
       \/ /\ CallbackMayRaise("direct")
          /\ pc' = [pc EXCEPT !["direct"] = ExceptionTarget("direct")]
          /\ UNCHANGED <<command, ret>>
    /\ UNCHANGED <<last_call, orphans, calls, ui_attached, start_timer, self_command_patterns, caught, flags, stop_listening, raising, response, speaking,
                   heard, acks>>

\* listen(source, timeout=5) raises WaitTimeoutError in the direct capture:
\* no command, a system message, and the thread ends.
DirectCaptureTimesOut ==
    /\ pc["direct"] = "lfc_listen"
    /\ pc' = [pc EXCEPT !["direct"] = "none"]
    /\ UNCHANGED <<last_call, orphans, calls, ui_attached, start_timer, self_command_patterns, caught, flags,
                   stop_listening, command, response, ret, raising, speaking, inputs, user_actions,
                   heard, acks>>

\* The direct capture gets audio that is not recognised, or the device cannot
\* be opened: a system message, and the thread ends.
DirectHearsNothing ==
    /\ pc["direct"] = "lfc_listen"
    /\ pc' = [pc EXCEPT !["direct"] = "none"]
    /\ UNCHANGED <<last_call, orphans, calls, ui_attached, start_timer, self_command_patterns, caught, flags, stop_listening, command, response, ret, raising, speaking,
                   inputs, user_actions, heard, acks>>

(***************************************************************************)
(* The specification.                                                      *)
(***************************************************************************)
LoopStep ==
    \/ LoopWhile
    \/ LoopCaptureTimesOut
    \/ LoopAcknowledges
    \/ LoopListenDone
    \/ LoopSleep
    \/ ProcessStart("loop")
    \/ ProcessRoute("loop")
    \/ ProcessSpeak("loop")
    \/ ProcessExcept("loop")
    \/ ProcessFinally("loop")

Hears ==
    \/ \E u \in Utterances : LoopHearsFirst(u)
    \/ \E u \in Utterances : LoopHearsWake(u)
    \/ \E u \in Utterances : LoopHearsCommand(u)
    \/ \E u \in Utterances : DirectHearsCommand(u)
    \/ LoopHearsNothing
    \/ LoopCaptureRaises
    \/ DirectHearsNothing

\* The steps the main (Qt) thread takes on its own.
MainStep ==
    \/ ProcessStart("main")
    \/ ProcessRoute("main")
    \/ ProcessJoinReturns("main")
    \/ ProcessSpeak("main")
    \/ ProcessExcept("main")
    \/ ProcessFinally("main")
    \/ StopReturns
    \/ Welcome
    \/ TimerStart

\* The steps the direct-command thread takes on its own.
DirectStep ==
    \/ ProcessStart("direct")
    \/ ProcessRoute("direct")
    \/ ProcessJoinReturns("direct")
    \/ ProcessSpeak("direct")
    \/ ProcessExcept("direct")
    \/ ProcessFinally("direct")
    \/ DirectAcknowledges
    \/ DirectCaptureTimesOut

SpeakStep ==
    \/ \E i \in 1..Len(speaking) : SpeakThreadPlays(i)
    \/ \E i \in 1..Len(speaking) : SpeakThreadEnds(i)

Calls ==
    \/ Start
    \/ Stop
    \/ \E c \in TextCommands : SendTextCommand(c)
    \/ ToggleVoiceInput

Next == LoopStep \/ Hears \/ MainStep \/ DirectStep \/ SpeakStep \/ Calls

Spec == Init /\ [][Next]_vars

\* The threads are scheduled fairly: a step a thread can take on its own (no
\* audio, no user action needed) is eventually taken.
FairSpec ==
    Spec /\ WF_vars(LoopStep) /\ WF_vars(MainStep) /\ WF_vars(DirectStep) /\ WF_vars(SpeakStep)

TypeOK ==
    /\ pc["loop"] \in {"none", "while", "dwwc_listen", "dww_listen", "ack1", "ack2",
                       "lfc_listen", "listen_done", "sleep", "exited"} \cup ProcessPcs
    /\ pc["main"] \in {"welcome", "idle", "join"} \cup ProcessPcs
    /\ pc["direct"] \in {"none", "ack", "lfc_listen"} \cup ProcessPcs
    /\ inputs \in 0..MaxInputs
    /\ acks \in 0..3
    /\ last_call \in {"none", "start", "stop"}
    /\ orphans \in Nat
    /\ \A t \in Threads : caught[t] \in {"", "process", "speak"}

(***************************************************************************)
(* The methods on their own: a sequence of direct calls of                 *)
(* CommandProcessor.process, _categorize_command and _remove_wake_word and *)
(* of the wake extraction of VoiceRecognizer.detect_wake_word_and_command, *)
(* with no listening loop running.  Each call is recorded in calls with    *)
(* what it returned and what it asked of the assistant (speak, stop).      *)
(***************************************************************************)
\* The number of calls in one behaviour.
MaxCalls == 3

\* Command texts given to process.
ProcessTexts ==
    {"", "   ", "nova", "time and date", "restart computer this time", "Nova, EXIT",
     "open task manager", "xyzzy foobar", "nova xyzzy foobar",
     "lock computer", "restart computer"}

\* Command texts given to _categorize_command.
CategorizeTexts == {"open task manager", "show cpu usage", "Shutdown Computer",
                    "show my ip address", "xyzzy foobar"}

\* Command texts given to _remove_wake_word, and what it makes of them (so
\* that it can be called again on its own result).
StripTexts == {"nova, exit", "nova nova exit", "innovate"}
StripPool ==
    StripTexts \cup {remove_wake_word(t) : t \in StripTexts}
        \cup {remove_wake_word(remove_wake_word(t)) : t \in StripTexts}

\* The wake phrases, and the utterances recognised in a wake capture: every
\* wake phrase followed by a command, and a wake word alone.
WakePhrases == {wake_word} \cup {alternative_wake_words[k] : k \in 1..Len(alternative_wake_words)}
SpokenCommands == {"exit", "nova exit"}
DetectTexts ==
    {W \o " " \o C : W \in WakePhrases, C \in SpokenCommands} \cup {"Nova"}

\* The four methods on the texts above, worked out once.
ProcessTable == [t \in ProcessTexts |-> Route(t)]
ProcessResponses == [t \in ProcessTexts |-> Responses(Route(t), FALSE)]
ProcessConfirmations == [t \in ProcessTexts |-> HandlerConfirmation(Route(t))]
CategorizeTable == [t \in CategorizeTexts |-> categorize_command(t)]
StripTable == [t \in StripPool |-> remove_wake_word(t)]
DetectTable == [u \in DetectTexts |-> CommandAfterWake(recognize_speech(u))]

\* One recorded call.
\*   process:          out the response, handler and via as Route gives them,
\*                     slot the text the handler was given, spoke the text the
\*                     handler passed to assistant.speak, stops whether it
\*                     called assistant.stop(), raised whether process raised
\*   categorize:       out the category ("none" for None), slot match.group(0)
\*   remove_wake_word: out the text returned
\*   detect:           out the command returned ("" for None), spoke the
\*                     acknowledgment on_wake_word_detected spoke
Call(op, text, out, handler, via, slot, spoke, stops, raised) ==
    [op |-> op, text |-> text, out |-> out, handler |-> handler, via |-> via,
     slot |-> slot, spoke |-> spoke, stops |-> stops, raised |-> raised]

\* Everything but the record of calls.  No loop thread is running; the speak
\* threads the calls start stay as speak() left them.
program == <<ui_attached, start_timer, self_command_patterns, caught, is_listening, is_processing, is_speaking, wake_word_detected,
             stop_listening, pc, command, response, ret, raising, speaking, inputs,
             user_actions, heard, acks, last_call, orphans>>

\* process(t) returns a response, or an operating-system handler raises.
CallProcess(t) ==
    /\ Len(calls) < MaxCalls
    /\ LET r == ProcessTable[t]
       IN  \/ /\ \E resp \in ProcessResponses[t] :
                   calls' = Append(calls, Call("process", t, resp, r.handler, r.via, r.text,
                                               ProcessConfirmations[t], HandlerStops(r), FALSE))
              /\ speaking' = Speak(speaking, ProcessConfirmations[t])
              /\ is_speaking' = (is_speaking \/ ProcessConfirmations[t] # "")
              /\ last_call' = IF HandlerStops(r) THEN "stop" ELSE last_call
           \/ /\ HandlerIsExternal(r)
              /\ calls' = Append(calls, Call("process", t, "", r.handler, r.via, r.text,
                                             "", FALSE, TRUE))
              /\ UNCHANGED <<speaking, is_speaking, last_call>>
    /\ UNCHANGED <<ui_attached, start_timer, self_command_patterns, caught, is_listening, is_processing, wake_word_detected, stop_listening, pc,
                   command, response, ret, raising, inputs, user_actions, heard, acks, orphans>>

\* What _categorize_command returns for t now: the classification over the
\* current self.command_patterns (taken from CategorizeTable while that is
\* still the dictionary __init__ made).
Categorized(t) ==
    IF self_command_patterns = command_patterns THEN CategorizeTable[t]
    ELSE categorize_over(self_command_patterns, t)

\* As CallCategorize, for a router that moves the category it found to the
\* front of self.command_patterns, to find it sooner the next time.
CallCategorize_MoveToFront(t) ==
    /\ Len(calls) < MaxCalls
    /\ LET c == Categorized(t)
       IN  /\ calls' = Append(calls, Call("categorize", t, c.category, "", "", c.group0,
                                          "", FALSE, FALSE))
           /\ self_command_patterns' =
                 SelectSeq(self_command_patterns, LAMBDA e : e[1] = c.category)
                    \o SelectSeq(self_command_patterns, LAMBDA e : e[1] # c.category)
    /\ UNCHANGED <<ui_attached, start_timer, caught, is_listening, is_processing, is_speaking, wake_word_detected,
                   stop_listening, pc, command, response, ret, raising, speaking, inputs,
                   user_actions, heard, acks, last_call, orphans>>

\* _categorize_command(t): it reads self.command_patterns and the text, and
\* assigns nothing.
CallCategorize(t) ==
    /\ Len(calls) < MaxCalls
    /\ LET c == Categorized(t)
       IN  calls' = Append(calls, Call("categorize", t, c.category, "", "", c.group0,
                                       "", FALSE, FALSE))
    /\ UNCHANGED program

\* _remove_wake_word(t)
CallRemoveWakeWord(t) ==
    /\ Len(calls) < MaxCalls
    /\ calls' = Append(calls, Call("remove_wake_word", t, StripTable[t], "", "", "",
                                   "", FALSE, FALSE))
    /\ UNCHANGED program

\* detect_wake_word_and_command, once the capture recognised u: the command
\* is returned, or on_wake_word_detected is called (the flag is set and an
\* acknowledgment spoken) and None is returned.
CallDetect(u) ==
    /\ Len(calls) < MaxCalls
    /\ IF DetectTable[u] # ""
       THEN /\ calls' = Append(calls, Call("detect", recognize_speech(u), DetectTable[u], "", "", "",
                                           "", FALSE, FALSE))
            /\ UNCHANGED <<wake_word_detected, is_speaking, speaking>>
       ELSE \E a \in AckTexts :
               /\ calls' = Append(calls, Call("detect", recognize_speech(u), "", "", "", "",
                                              a, FALSE, FALSE))
               /\ wake_word_detected' = TRUE
               /\ is_speaking' = TRUE
               /\ speaking' = Speak(speaking, a)
    /\ UNCHANGED <<ui_attached, start_timer, self_command_patterns, caught, is_listening, is_processing, stop_listening, pc, command, response, ret,
                   raising, inputs, user_actions, heard, acks, last_call, orphans>>

UnitInit == Init /\ ~ui_attached

UnitNext ==
    \/ \E t \in ProcessTexts : CallProcess(t)
    \/ \E t \in CategorizeTexts : CallCategorize(t)
    \/ \E t \in StripPool : CallRemoveWakeWord(t)
    \/ \E u \in DetectTexts : CallDetect(u)

UnitSpec == UnitInit /\ [][UnitNext]_vars

(***************************************************************************)
(* ResponseGenerator: the two formatters, each called once on a fresh      *)
(* generator.                                                              *)
(***************************************************************************)
RECURSIVE Join(_, _)
\* sep.join(items)
Join(sep, items) ==
    IF Len(items) = 0 THEN ""
    ELSE IF Len(items) = 1 THEN items[1]
    ELSE items[1] \o sep \o Join(sep, Tail(items))

\* As format_list_items, for a formatter that writes no comma before "and".
format_list_items_NoSerialComma(items, intro) ==
    IF Len(items) = 0 THEN "I didn't find any items."
    ELSE IF Len(items) = 1 THEN intro \o " " \o items[1] \o "."
    ELSE intro \o " " \o Join(", ", SubSeq(items, 1, Len(items) - 1))
               \o " and " \o items[Len(items)] \o "."

\* format_list_items(items, intro)
format_list_items(items, intro) ==
    IF Len(items) = 0 THEN "I didn't find any items."
    ELSE IF Len(items) = 1 THEN intro \o " " \o items[1] \o "."
    ELSE LET formatted_items == Join(", ", SubSeq(items, 1, Len(items) - 1))
                                   \o ", and " \o items[Len(items)]
         IN  intro \o " " \o formatted_items \o "."

\* f"{n} {unit}{'s' if n != 1 else ''}"
Counted(n, unit) == ToStr(n) \o " " \o unit \o (IF n # 1 THEN "s" ELSE "")

\* As format_time_duration, for a formatter that still counts sixty seconds
\* as seconds and sixty minutes as minutes.
format_time_duration_LateUnits(seconds) ==
    IF seconds <= 60 THEN Counted(seconds, "second")
    ELSE LET minutes == seconds \div 60
         IN  IF minutes <= 60 THEN Counted(minutes, "minute")
             ELSE LET hours == minutes \div 60
                      rest == minutes % 60
                  IN  IF rest = 0 THEN Counted(hours, "hour")
                      ELSE Counted(hours, "hour") \o " and " \o Counted(rest, "minute")

\* format_time_duration(seconds), seconds a natural number
format_time_duration(seconds) ==
    IF seconds < 60 THEN Counted(seconds, "second")
    ELSE LET minutes == seconds \div 60
         IN  IF minutes < 60 THEN Counted(minutes, "minute")
             ELSE LET hours == minutes \div 60
                      rest == minutes % 60
                  IN  IF rest = 0 THEN Counted(hours, "hour")
                      ELSE Counted(hours, "hour") \o " and " \o Counted(rest, "minute")

\* The longest list given to format_list_items, and what its items and its
\* intro are drawn from.
MaxItems == 3
ItemTexts == {"chrome", "wifi"}
IntroTexts == {"Here's what I found:", "Running:"}
RECURSIVE ListsUpTo(_)
ListsUpTo(n) ==
    IF n = 0 THEN {<<>>}
    ELSE ListsUpTo(n - 1)
           \cup {Append(l, x) : l \in {m \in ListsUpTo(n - 1) : Len(m) = n - 1}, x \in ItemTexts}
ItemLists == ListsUpTo(MaxItems)

\* The longest duration given to format_time_duration, in seconds.
MaxSeconds == 7325

\* One recorded formatter call: text the intro, arg the list or the number of
\* seconds, out the text returned.
FormatCall(op, text, arg, out) ==
    [op |-> op, text |-> text, out |-> out, handler |-> "", via |-> "", slot |-> "",
     spoke |-> "", stops |-> FALSE, raised |-> FALSE, arg |-> arg]

CallFormatList(items, intro) ==
    /\ calls = <<>>
    /\ calls' = <<FormatCall("format_list_items", intro, items, format_list_items(items, intro))>>
    /\ UNCHANGED program

CallFormatDuration(seconds) ==
    /\ calls = <<>>
    /\ calls' = <<FormatCall("format_time_duration", "", seconds, format_time_duration(seconds))>>
    /\ UNCHANGED program

FormatNext ==
    \/ \E items \in ItemLists : \E intro \in IntroTexts : CallFormatList(items, intro)
    \/ \E seconds \in 0..MaxSeconds : CallFormatDuration(seconds)

FormatSpec == UnitInit /\ [][FormatNext]_vars

(***************************************************************************)
(* The claims.                                                             *)
(***************************************************************************)
\* The speak threads that are inside the text-to-speech call.
Playing == {i \in 1..Len(speaking) : speaking[i].st = "playing"}

\* C1: speech is played in the order of the speak calls: a text is not being
\* played while a text of an earlier speak call has not finished playing.
C1_SpeechInCallOrder == \A j \in 2..Len(speaking) : speaking[j].st = "ready"

\* C2: speech never overlaps itself: at most one speak thread is inside the
\* text-to-speech call.
C2_NoOverlappingSpeech == Cardinality(Playing) <= 1

\* C3: at the end of a wake cycle (the loop entered active listening and is
\* done listening) on_wake_word_detected has been called exactly once in the
\* cycle.
C3_WakeAcknowledgedOnce == pc["loop"] = "listen_done" => acks = 1

\* C4: once the stop signal is set, the loop starts no new blocking capture.
C4_NoCaptureAfterStop ==
    [][~(/\ stop_listening
         /\ pc'["loop"] \in CapturePcs
         /\ pc'["loop"] # pc["loop"])]_vars

\* C5: when the stop signal is set while the loop is blocked in a capture, the
\* loop thread eventually ends, whether or not audio arrives.
C5_StopEndsBlockedLoop ==
    (stop_listening /\ pc["loop"] \in CapturePcs) ~> (pc["loop"] = "exited")

\* The text is a wake phrase with no command after it.
WakeOnly(text) == StartsWithWake(text) /\ CommandAfterWake(text) = ""
WakeOnlyTexts == {HeardTable[u].text : u \in {v \in Utterances : WakeOnly(HeardTable[v].text)}}

\* C6: after an utterance that is only a wake phrase the loop goes on to the
\* command capture: it does not wait in detect_wake_word for a second
\* utterance with the wake word.
C6_WakeOnlyLeadsToCommandCapture ==
    ~(pc["loop"] = "dww_listen" /\ heard \in WakeOnlyTexts)

\* C7: at most one of is_listening, is_processing and is_speaking is True.
C7_OneStateAtATime ==
    /\ ~(is_listening /\ is_processing)
    /\ ~(is_listening /\ is_speaking)
    /\ ~(is_processing /\ is_speaking)

\* C8: at most one thread is inside process_command.
C8_ProcessingSerialized == Cardinality({t \in Threads : pc[t] \in ProcessPcs}) <= 1

\* C9: the status flags change only in steps of the listening loop thread.
C9_FlagsWrittenByLoopOnly == [][flags' # flags => pc'["loop"] # pc["loop"]]_vars

\* C10: the loop thread ends only when the stop signal is set: no failure
\* inside an iteration ends it.
C10_LoopEndsOnlyOnStop ==
    [][(pc["loop"] # "exited" /\ pc'["loop"] = "exited") => stop_listening]_vars

\* C10, witness: an exception raised inside an iteration was caught, and the
\* loop is about to go on with the stop signal clear.
C10_FailureSurvived == pc["loop"] = "sleep" /\ ~stop_listening

\* C11, as stated: whenever process raised, the except clause of
\* process_command speaks the apology and no exception is pending after it,
\* and the finally clause clears is_processing and returns to the caller.
C11_HandlerFailureAlwaysApologised ==
    [][\A t \in Threads :
          caught[t] = "process" =>
              /\ (pc[t] = "pc_except" /\ pc'[t] # "pc_except") =>
                    /\ pc'[t] = "pc_finally"
                    /\ speaking' = Append(speaking,
                            [text |-> "I'm sorry, I encountered an error while processing your request.",
                             st |-> "ready"])
                    /\ ~raising'[t]
              /\ (pc[t] = "pc_finally" /\ pc'[t] # "pc_finally") =>
                    /\ ~is_processing'
                    /\ pc'[t] = ret[t]]_vars

\* C11: whenever process raised, the except clause of process_command calls
\* speak with the apology: is_speaking is set and either a speak thread is
\* started for "I'm sorry, I encountered an error while processing your
\* request." and no exception is pending, or (only on a thread whose observer
\* callbacks can raise) on_speaking_started raised, nothing is spoken and its
\* exception is pending.  The finally clause then sets is_processing to
\* False; with no exception pending the call returns to its caller unless
\* (again only on such a thread) on_processing_stopped raises; a pending
\* exception leaves the call.  On a thread whose callbacks cannot raise the
\* apology is always spoken and the call always returns.
C11_HandlerFailureApologised ==
    [][\A t \in Threads :
          caught[t] = "process" =>
              /\ (pc[t] = "pc_except" /\ pc'[t] # "pc_except") =>
                    /\ pc'[t] = "pc_finally"
                    /\ is_speaking'
                    /\ \/ /\ speaking' = Append(speaking,
                                [text |-> "I'm sorry, I encountered an error while processing your request.",
                                 st |-> "ready"])
                          /\ ~raising'[t]
                       \/ /\ CallbackMayRaise(t)
                          /\ speaking' = speaking
                          /\ raising'[t]
              /\ (pc[t] = "pc_finally" /\ pc'[t] # "pc_finally") =>
                    /\ ~is_processing'
                    /\ IF raising[t] THEN pc'[t] = ExceptionTarget(t)
                       ELSE \/ pc'[t] = ret[t]
                            \/ CallbackMayRaise(t) /\ pc'[t] = ExceptionTarget(t)]_vars

\* C11, witness: with the UI attached, process raised on the loop thread, the
\* apology was spoken (its speak thread is still live), no exception is
\* pending and the call is in its finally clause.
C11_ApologisedAndReturned ==
    /\ ui_attached
    /\ pc["loop"] = "pc_finally"
    /\ caught["loop"] = "process"
    /\ ~raising["loop"]
    /\ \E i \in 1..Len(speaking) :
          speaking[i].text = "I'm sorry, I encountered an error while processing your request."

\* No thread is inside stop(): with the stop signal set, a call of stop() has
\* completed since the last start().
NoThreadInStop == pc["main"] # "join" /\ \A t \in Threads : pc[t] # "pc_join"

\* C12: once stop() has completed, the loop begins no further process_command
\* (and so emits no further on_processing_started).
C12_IdleAfterStop ==
    [][(stop_listening /\ NoThreadInStop /\ pc["loop"] # "pc_start")
          => pc'["loop"] # "pc_start"]_vars

\* C13: the loop thread never waits for playback: outside a blocking audio
\* capture it always has a next step, whatever the speak threads are doing.
C13_LoopNeverWaitsForPlayback ==
    (LoopAlive /\ pc["loop"] \notin CapturePcs) => ENABLED LoopStep

\* C13, witness: the loop is in its next wake capture while the response to a
\* command is being played.
C13_CaptureDuringPlayback ==
    /\ pc["loop"] = "dwwc_listen"
    /\ \E i \in Playing : \E c \in CommandPool : speaking[i].text \in ResponseTable[c]

\* The recorded calls of one method.
CallsOf(op) == {i \in 1..Len(calls) : calls[i].op = op}

\* The builtin keys in the declared order, and the handler the table gives
\* a key.
C14_DeclaredOrder ==
    <<"hello", "hi", "hey", "time", "date", "help", "who are you", "what can you do",
      "thank you", "thanks", "exit", "quit", "stop listening">>
C14_HandlerOf(key) ==
    builtin_commands[CHOOSE n \in 1..Len(builtin_commands) : builtin_commands[n][1] = key][2]
C14_KeysIn(text) ==
    {n \in 1..Len(C14_DeclaredOrder) : Contains(Lower(text), C14_DeclaredOrder[n])}
\* The handler the declared order calls for ("none": the text has no key).
C14_Expected ==
    [t \in ProcessTexts |->
        IF C14_KeysIn(t) = {} THEN "none"
        ELSE C14_HandlerOf(C14_DeclaredOrder[
                 CHOOSE n \in C14_KeysIn(t) : \A h \in C14_KeysIn(t) : n <= h])]
C14_SeveralKeysAndPattern ==
    {t \in ProcessTexts : Cardinality(C14_KeysIn(t)) >= 2
                          /\ categorize_command(t).category # "none"}

\* C14: a text that contains a builtin key reaches the handler of the first
\* such key in the declared order, by the builtin stage and by no other.
C14_BuiltinFirstInOrder ==
    \A i \in CallsOf("process") :
        C14_Expected[calls[i].text] # "none" =>
            /\ calls[i].via = "builtin"
            /\ calls[i].handler = C14_Expected[calls[i].text]
            /\ ~calls[i].raised

\* C14, witness: process was given a text with several builtin keys that also
\* matches a category pattern, and a builtin handler answered.
C14_BuiltinBeatPattern ==
    \E i \in CallsOf("process") :
        calls[i].text \in C14_SeveralKeysAndPattern /\ calls[i].via = "builtin"

\* Some pattern of the category matches the lower-cased text.
C15_Matches(category, text) ==
    \E c \in 1..Len(command_patterns) :
        /\ command_patterns[c][1] = category
        /\ \E n \in 1..Len(command_patterns[c][2]) :
              Search(command_patterns[c][2][n], Lower(text))
C15_Order == <<"app", "system", "network", "utility">>
C15_Expected ==
    [t \in CategorizeTexts |->
        LET ms == {k \in 1..Len(C15_Order) : C15_Matches(C15_Order[k], t)}
        IN  IF ms = {} THEN "none"
            ELSE C15_Order[CHOOSE k \in ms : \A h \in ms : k <= h]]
C15_AppAndUtility ==
    {t \in CategorizeTexts : C15_Matches("app", t) /\ C15_Matches("utility", t)}

\* C15: _categorize_command returns the first category, in the order app,
\* system, network, utility, that has a matching pattern; a text matching an
\* app pattern and a utility pattern is app.
C15_CategoryPriority ==
    \A i \in CallsOf("categorize") :
        /\ calls[i].out = C15_Expected[calls[i].text]
        /\ calls[i].text \in C15_AppAndUtility => calls[i].out = "app"

\* C15, witness: a text matching both an app and a utility pattern was
\* classified.
C15_AmbiguousClassified ==
    \E i \in CallsOf("categorize") : calls[i].text \in C15_AppAndUtility

\* The keywords of the fallback stage of process.
C16_Keywords ==
    <<"open", "launch", "start", "run", "shutdown", "restart", "lock", "sleep",
      "hibernate", "log out", "wifi", "wireless", "bluetooth", "ip address", "network",
      "control panel", "task manager", "file explorer", "processes", "volume">>

\* The non-empty texts with no builtin key, no category pattern and no
\* fallback keyword.
C16_NoIntent ==
    {t \in ProcessTexts :
        /\ t # ""
        /\ C14_KeysIn(t) = {}
        /\ \A k \in 1..Len(C15_Order) : ~C15_Matches(C15_Order[k], t)
        /\ ~ContainsAny(Lower(t), C16_Keywords)}
C16_Fallback(text) ==
    "I'm not sure how to handle '" \o text \o "'. Try asking for help to see what I can do."
C16_Stripped == [t \in ProcessTexts |-> remove_wake_word(t)]

\* C16: for a text with no builtin key, no category pattern and no fallback
\* keyword, process calls no handler and returns the generic fallback
\* response, which contains verbatim the command text as _remove_wake_word
\* left it.
C16_FallbackQuotesStrippedText ==
    \A i \in CallsOf("process") :
        calls[i].text \in C16_NoIntent =>
            /\ calls[i].via = "unrecognized"
            /\ calls[i].handler = "none"
            /\ ~calls[i].raised
            /\ calls[i].out = C16_Fallback(C16_Stripped[calls[i].text])

\* C16, witness: process answered an unrecognised text that begins with the
\* wake word.
C16_WakePrefixedUnrecognised ==
    \E i \in CallsOf("process") :
        /\ calls[i].text \in C16_NoIntent
        /\ C16_Stripped[calls[i].text] # calls[i].text
        /\ C16_Stripped[calls[i].text] # ""

\* C16, as stated: the fallback response contains the command text given to
\* process verbatim.
C16_FallbackQuotesGivenText ==
    \A i \in CallsOf("process") :
        calls[i].text \in C16_NoIntent =>
            /\ calls[i].via = "unrecognized"
            /\ Contains(calls[i].out, calls[i].text)

\* The texts that are empty after wake-word stripping and trimming.
C17_EmptyCommands == {t \in ProcessTexts : Strip(remove_wake_word(t)) = ""}

\* C17: a command that is empty after wake-word stripping and trimming gets
\* the clarification response and reaches no handler and no fallback.
C17_EmptyNeverRouted ==
    \A i \in CallsOf("process") :
        calls[i].text \in C17_EmptyCommands =>
            /\ calls[i].via = "empty"
            /\ calls[i].out = "I didn't catch that. Can you please repeat?"

\* C18: _remove_wake_word called on a text it returned returns that text
\* unchanged.
C18_StrippingIdempotent ==
    \A i \in CallsOf("remove_wake_word") : \A j \in CallsOf("remove_wake_word") :
        (i < j /\ calls[j].text = calls[i].out) => calls[j].out = calls[j].text

\* Utterance and command of every wake phrase followed by a command.
C19_RoundTrips ==
    {<<recognize_speech(W \o " " \o C), C>> : W \in WakePhrases, C \in SpokenCommands}

\* C19: for an utterance W + " " + C, W a wake phrase and C a command,
\* detect_wake_word_and_command returns exactly C.
C19_WakeCommandRoundTrip ==
    \A i \in CallsOf("detect") : \A p \in C19_RoundTrips :
        calls[i].text = p[1] => calls[i].out = p[2]

\* C19, witness: an alternative phrase was followed by a command that itself
\* begins with the wake word, and the command came back whole.
C19_AlternativePhraseStripped ==
    \E i \in CallsOf("detect") :
        calls[i].text = "hey nova nova exit" /\ calls[i].out = "nova exit"

\* C20: two calls of _categorize_command with the same text return the same
\* category and the same match, whatever was called in between: the
\* dictionary a call reads is the one every earlier call read.
C20_ClassificationDeterministic ==
    \A i \in CallsOf("categorize") : \A j \in CallsOf("categorize") :
        calls[i].text = calls[j].text =>
            calls[i].out = calls[j].out /\ calls[i].slot = calls[j].slot

\* C20, witness: the same text was classified twice, with a call on another
\* text in between.
C20_SameTextTwice ==
    /\ Len(calls) = 3
    /\ calls[1].op = "categorize" /\ calls[3].op = "categorize"
    /\ calls[1].text = calls[3].text
    /\ calls[2].text # calls[1].text

RECURSIVE C21_Listed(_, _)
\* The items from the k-th on, each after the first preceded by ", " and the
\* last of two or more also by "and ".
C21_Listed(items, k) ==
    IF k > Len(items) THEN ""
    ELSE (IF k > 1 THEN ", " ELSE "")
           \o (IF k = Len(items) /\ Len(items) >= 2 THEN "and " ELSE "")
           \o items[k] \o C21_Listed(items, k + 1)

\* C21: format_list_items returns "I didn't find any items." for an empty
\* list, and otherwise the intro, a space, the items joined with ", " with
\* "and " before the last of two or more, and a final ".".
C21_ListFormatted ==
    \A i \in CallsOf("format_list_items") :
        calls[i].out = IF calls[i].arg = <<>> THEN "I didn't find any items."
                       ELSE calls[i].text \o " " \o C21_Listed(calls[i].arg, 1) \o "."

\* C21, witness: a list of three items was formatted with the serial comma.
C21_ThreeItemsFormatted ==
    \E i \in CallsOf("format_list_items") :
        /\ calls[i].arg = <<"chrome", "wifi", "chrome">>
        /\ calls[i].out = "Running: chrome, wifi, and chrome."

\* A count with its unit, singular exactly for 1.
C22_Unit(n, unit) == ToStr(n) \o " " \o (IF n = 1 THEN unit ELSE unit \o "s")
C22_Expected(s) ==
    IF s < 60 THEN C22_Unit(s, "second")
    ELSE IF s < 3600 THEN C22_Unit(s \div 60, "minute")
    ELSE C22_Unit(s \div 3600, "hour")
           \o (IF (s \div 60) % 60 # 0
               THEN " and " \o C22_Unit((s \div 60) % 60, "minute") ELSE "")

\* C22: format_time_duration(s) is the seconds below a minute, the whole
\* minutes below an hour, and otherwise the whole hours followed by the
\* remaining whole minutes when there are any, each unit singular exactly for
\* a count of 1.
C22_DurationFormatted ==
    \A i \in CallsOf("format_time_duration") : calls[i].out = C22_Expected(calls[i].arg)

\* C22, witness: 3660 seconds were formatted as one hour and one minute.
C22_HourAndMinute ==
    \E i \in CallsOf("format_time_duration") :
        calls[i].arg = 3660 /\ calls[i].out = "1 hour and 1 minute"

\* C23: an exit command processed on the loop thread does not end in the
\* except clause of process_command: handle_exit returns, and what is spoken
\* is its response, not the apology.
C23_ExitOnLoopReturnsNormally ==
    pc["loop"] = "pc_except" => RouteTable[command["loop"]].handler # "handle_exit"

\* handle_stop_listening has run on some thread, which is still inside
\* process_command.
StopListeningHandled ==
    \E t \in Threads :
        /\ pc[t] \in {"pc_join", "pc_speak", "pc_except", "pc_finally"}
        /\ RouteTable[command[t]].handler = "handle_stop_listening"

\* C24: after a "stop listening" command has been handled, a listening loop
\* is eventually waiting for the wake word again, with the stop signal clear.
C24_ReactivatedByVoice ==
    StopListeningHandled ~> (pc["loop"] \in UntimedCapturePcs /\ ~stop_listening)

\* C25: when detect_wake_word_and_command has called on_wake_word_detected,
\* the utterance it recognised was a wake phrase with no command after it.
C25_AckOnlyForBareWakePhrase ==
    (pc["loop"] = "dww_listen" /\ acks >= 1) => WakeOnly(heard)

\* C26: while start() is the latest of the calls of start() and stop(), a
\* listening loop is running and the stop signal is clear.
C26_RunningAfterStart ==
    last_call = "start" => (LoopAlive /\ ~stop_listening)

\* C27: while a speak call is in flight (on_speaking_started called, the
\* thread's on_speaking_stopped not yet), is_speaking is True.
C27_SpeakingWhileInFlight == speaking # <<>> => is_speaking

\* C28: when the loop has begun an iteration (it is in the capture of
\* detect_wake_word_and_command), is_listening is False.
C28_NotListeningAtIterationStart == pc["loop"] = "dwwc_listen" => ~is_listening

\* The live threads running listen_continuously.
C30_LiveLoopThreads == (IF LoopAlive THEN 1 ELSE 0) + orphans

\* C30: at most one thread running listen_continuously is alive.
C30_AtMostOneLoopThread == C30_LiveLoopThreads <= 1

\* C30, witness: start() was called while the loop thread was alive (after a
\* stop() whose join gave up), and there is still one loop thread.
C30_StartWhileAlive ==
    last_call = "start" /\ stop_listening /\ LoopAlive /\ C30_LiveLoopThreads = 1

\* The phrases that name an operation of SystemCommands.
C29_SystemPhrases ==
    {"shutdown computer", "restart computer", "lock computer", "sleep computer",
     "hibernate computer", "log out"}

\* C29: process gives each of the system phrases to SystemCommands.process,
\* and to no builtin handler and no other category's handler.
C29_SystemPhrasesReachSystemHandler ==
    \A i \in CallsOf("process") :
        calls[i].text \in C29_SystemPhrases => calls[i].handler = "system"
====
